---------------------------- MODULE Spec2Model ----------------------------
(***************************************************************************)
(* AthenaX: the two-percent-down strategy run (pkg/strategies), the        *)
(* broker wrapper it drives (pkg/alpaca) and the notifier (pkg/notification)*)
(*                                                                         *)
(* Conventions.                                                            *)
(*  - Strings the code inspects character by character (option symbols,   *)
(*    the MAX_ACTIVE_OPTIONS value) are sequences of one-character strings.*)
(*  - Money is an integer number of cents; a float64 quotient the code     *)
(*    keeps (the investment size) is the exact fraction [num, den].        *)
(*  - A calendar date is the integer YYYYMMDD.                             *)
(*  - Option.Strike is strikeFloat / 1000: the model keeps strikeFloat     *)
(*    itself (StrikeMilli) when the eight characters are plain digits.     *)
(***************************************************************************)
EXTENDS Integers, Sequences, FiniteSets, TLC

(***************************************************************************)
(* Bounds of the model.                                                    *)
(***************************************************************************)
\* longest account position list the broker is let to hold
MaxPositions == 4

(***************************************************************************)
(* Program constants.                                                      *)
(***************************************************************************)
\* two_percent_down.go:25  maxActiveOptions := 5
DefaultMaxActiveOptions == 5
\* two_percent_down.go:56  changePercent <= -2.0
GapThresholdPercent == -2
\* two_percent_down.go:74  GetCallLeapsByDelta(ctx, ticker, 0.60), in hundredths
MinDeltaHundredths == 60
\* two_percent_down.go:90  PlaceOptionLimitOrderWithTakeProfit(..., 50.0)
TakeProfitPercent == 50
\* two_percent_down.go:14  const ticker = "QQQ"
ticker == <<"Q", "Q", "Q">>

(***************************************************************************)
(* Characters and numerals.                                                *)
(***************************************************************************)
Digits == {"0", "1", "2", "3", "4", "5", "6", "7", "8", "9"}

DigitVal(c) ==
    CASE c = "0" -> 0 [] c = "1" -> 1 [] c = "2" -> 2 [] c = "3" -> 3
      [] c = "4" -> 4 [] c = "5" -> 5 [] c = "6" -> 6 [] c = "7" -> 7
      [] c = "8" -> 8 [] c = "9" -> 9

AllDigits(s) == \A i \in 1..Len(s) : s[i] \in Digits

RECURSIVE DecimalValue(_)
DecimalValue(s) ==
    IF Len(s) = 0 THEN 0
    ELSE 10 * DecimalValue(SubSeq(s, 1, Len(s) - 1)) + DigitVal(s[Len(s)])

\* the last n characters of s, and s without them (Go: s[len(s)-n:], s[:len(s)-n])
Tail_n(s, n) == SubSeq(s, Len(s) - n + 1, Len(s))
DropTail_n(s, n) == SubSeq(s, 1, Len(s) - n)

Lower(c) ==
    CASE c = "I" -> "i" [] c = "N" -> "n" [] c = "F" -> "f" [] c = "T" -> "t"
      [] c = "Y" -> "y" [] c = "A" -> "a" [] c = "E" -> "e" [] c = "X" -> "x"
      [] c = "P" -> "p" [] OTHER -> c

(***************************************************************************)
(* strconv.ParseFloat(s, 64), as ParseOptionTicker uses it on the last 8   *)
(* characters of a symbol.  The accepted syntax is Go's: a special value   *)
(* (inf, infinity, nan, any case, inf with an optional sign), or an        *)
(* optional sign, decimal or 0x-hexadecimal digits with at most one point  *)
(* and underscores between digits, and an exponent (e or, for hex, a       *)
(* mandatory p).  A decimal value too large for a float64 is a range error.*)
(***************************************************************************)
HexLetters == {"a", "b", "c", "d", "e", "f"}

IsMantChar(c, hex) == c \in Digits \/ (hex /\ Lower(c) \in HexLetters)

\* strconv.special: the whole string is a special value
IsSpecial(s) ==
    LET signed == Len(s) >= 1 /\ s[1] \in {"+", "-"}
        body == IF signed THEN Tail(s) ELSE s
        low == [i \in 1..Len(body) |-> Lower(body[i])]
    IN  \/ low = <<"i", "n", "f">>
        \/ low = <<"i", "n", "f", "i", "n", "i", "t", "y">>
        \/ (~signed /\ low = <<"n", "a", "n">>)

\* strconv.readFloat: the index just past the mantissa that starts at i
RECURSIVE ScanMantissa(_, _, _, _)
ScanMantissa(s, i, hex, sawdot) ==
    IF i > Len(s) THEN i
    ELSE IF s[i] = "_" \/ IsMantChar(s[i], hex) THEN ScanMantissa(s, i + 1, hex, sawdot)
    ELSE IF s[i] = "." /\ ~sawdot THEN ScanMantissa(s, i + 1, hex, TRUE)
    ELSE i

\* strconv.readFloat: the index just past the exponent digits that start at i
RECURSIVE ScanExpDigits(_, _)
ScanExpDigits(s, i) ==
    IF i <= Len(s) /\ (s[i] \in Digits \/ s[i] = "_") THEN ScanExpDigits(s, i + 1)
    ELSE i

\* strconv.underscoreOK, on the characters after the optional sign
RECURSIVE UnderscoreScan(_, _, _, _)
UnderscoreScan(s, i, hex, saw) ==
    IF i > Len(s) THEN saw # "_"
    ELSE IF IsMantChar(s[i], hex) THEN UnderscoreScan(s, i + 1, hex, "0")
    ELSE IF s[i] = "_" THEN saw = "0" /\ UnderscoreScan(s, i + 1, hex, "_")
    ELSE saw # "_" /\ UnderscoreScan(s, i + 1, hex, "!")

UnderscoreOK(s) ==
    LET body == IF Len(s) >= 1 /\ s[1] \in {"+", "-"} THEN Tail(s) ELSE s
        prefixed == Len(body) >= 2 /\ body[1] = "0" /\ Lower(body[2]) \in {"b", "o", "x"}
    IN  IF prefixed
        THEN UnderscoreScan(body, 3, Lower(body[2]) = "x", "0")
        ELSE UnderscoreScan(body, 1, FALSE, "^")

\* the digits of s[from..to-1], points and underscores dropped
RECURSIVE MantDigits(_, _, _)
MantDigits(s, from, to) ==
    IF from >= to THEN <<>>
    ELSE IF s[from] \in {"_", "."} THEN MantDigits(s, from + 1, to)
    ELSE <<s[from]>> \o MantDigits(s, from + 1, to)

\* how many digits of s[from..to-1] follow the point
RECURSIVE FracDigits(_, _, _, _)
FracDigits(s, from, to, sawdot) ==
    IF from >= to THEN 0
    ELSE IF s[from] = "." THEN FracDigits(s, from + 1, to, TRUE)
    ELSE IF s[from] = "_" THEN FracDigits(s, from + 1, to, sawdot)
    ELSE (IF sawdot THEN 1 ELSE 0) + FracDigits(s, from + 1, to, sawdot)

\* whether the numeral is too large for a float64: strconv returns ErrRange.
\* Decimal d.ddd * 10^E against math.MaxFloat64 = 1.7976931348623157e308;
\* hexadecimal m * 2^x against 2^1024.
RECURSIVE StripZeros(_)
StripZeros(d) == IF Len(d) > 0 /\ d[1] = "0" THEN StripZeros(Tail(d)) ELSE d

RECURSIVE PadTo(_, _)
PadTo(d, k) == IF Len(d) >= k THEN SubSeq(d, 1, k) ELSE PadTo(d \o <<"0">>, k)

\* bits a hexadecimal digit string without leading zeros occupies
HexBits(d) ==
    IF Len(d) = 0 THEN 0
    ELSE 4 * (Len(d) - 1)
         + (CASE d[1] = "1" -> 1
              [] d[1] \in {"2", "3"} -> 2
              [] d[1] \in {"4", "5", "6", "7"} -> 3
              [] OTHER -> 4)

\* sig: the mantissa's digits from the first non-zero one; e: the exponent
\* (readFloat stops adding digits to it at 10000); frac: digits after the point
OverflowsAt(hex, sig, e, frac) ==
    /\ Len(sig) > 0
    /\ IF hex
       THEN HexBits(sig) + e - 4 * frac > 1024
       ELSE \/ e - frac + Len(sig) - 1 > 308
            \/ e - frac + Len(sig) - 1 = 308 /\ DecimalValue(PadTo(sig, 6)) > 179769

ExpValue(expNeg, ex) ==
    IF Len(ex) > 4 THEN (IF expNeg THEN 0 - 10000 ELSE 10000)
    ELSE IF expNeg THEN 0 - DecimalValue(ex) ELSE DecimalValue(ex)

Overflows(hex, mant, frac, expNeg, exp) ==
    OverflowsAt(hex, StripZeros(mant), ExpValue(expNeg, StripZeros(exp)), frac)

\* strconv.readFloat and the range check: whether s is a numeral ParseFloat
\* accepts.  i0, i1, i2, i3, i4 are the indices at which the sign, the base
\* prefix, the mantissa, the exponent's sign and the exponent's digits end.
ReadExponent(s, hex, i1, i2, hasExp, i3, i4) ==
    /\ \E k \in i1..(i2 - 1) : IsMantChar(s[k], hex)
    /\ (hasExp => (i3 <= Len(s) /\ s[i3] \in Digits))
    /\ (hex => hasExp)
    /\ i4 = Len(s) + 1
    /\ UnderscoreOK(s)
    /\ ~Overflows(hex, MantDigits(s, i1, i2), FracDigits(s, i1, i2, FALSE),
                  hasExp /\ i2 + 1 <= Len(s) /\ s[i2 + 1] = "-", MantDigits(s, i3, i4))

ReadExpSign(s, hex, i1, i2, hasExp, i3) ==
    ReadExponent(s, hex, i1, i2, hasExp, i3,
                 IF hasExp /\ i3 <= Len(s) /\ s[i3] \in Digits THEN ScanExpDigits(s, i3) ELSE i2)

ReadMantissa(s, hex, i1, i2) ==
    ReadExpSign(s, hex, i1, i2,
                i2 <= Len(s) /\ Lower(s[i2]) = (IF hex THEN "p" ELSE "e"),
                IF i2 + 1 <= Len(s) /\ s[i2 + 1] \in {"+", "-"} THEN i2 + 2 ELSE i2 + 1)

ReadPrefix(s, i0, hex) ==
    ReadMantissa(s, hex, IF hex THEN i0 + 2 ELSE i0,
                 ScanMantissa(s, IF hex THEN i0 + 2 ELSE i0, hex, FALSE))

ReadSign(s, i0) ==
    ReadPrefix(s, i0, i0 + 2 <= Len(s) /\ s[i0] = "0" /\ Lower(s[i0 + 1]) = "x")

ReadFloat(s) ==
    /\ Len(s) >= 1
    /\ ReadSign(s, IF s[1] \in {"+", "-"} THEN 2 ELSE 1)

\* ParseFloat: whether err == nil, the kind of numeral, and for a string of
\* plain digits the integer it spells
ParseFloat(s) ==
    IF IsSpecial(s) THEN [ok |-> TRUE, kind |-> "special", int |-> 0]
    ELSE IF ~ReadFloat(s) THEN [ok |-> FALSE, kind |-> "error", int |-> 0]
    ELSE IF AllDigits(s) THEN [ok |-> TRUE, kind |-> "integer", int |-> DecimalValue(s)]
    ELSE [ok |-> TRUE, kind |-> "numeral", int |-> 0]

(***************************************************************************)
(* time.Parse("2006-01-02", "20" + YY + "-" + MM + "-" + DD)               *)
(***************************************************************************)
IsLeap(y) == (y % 4 = 0 /\ y % 100 # 0) \/ y % 400 = 0

\* DaysIn with every month given 31 days
DaysInLongMonth(y, m) == 31

DaysIn(y, m) ==
    IF m = 2 THEN (IF IsLeap(y) THEN 29 ELSE 28)
    ELSE IF m \in {4, 6, 9, 11} THEN 30 ELSE 31

\* the date 20YY-MM-DD as the integer YYYYMMDD
DateOf(y, m, d) ==
    IF m \in 1..12 /\ d >= 1 /\ d <= DaysIn(y, m)
    THEN [ok |-> TRUE, date |-> y * 10000 + m * 100 + d]
    ELSE [ok |-> FALSE, date |-> 0]

\* dateStr is the six characters YYMMDD
ParseDate(dateStr) ==
    IF AllDigits(dateStr)
    THEN DateOf(2000 + DecimalValue(SubSeq(dateStr, 1, 2)),
                DecimalValue(SubSeq(dateStr, 3, 4)),
                DecimalValue(SubSeq(dateStr, 5, 6)))
    ELSE [ok |-> FALSE, date |-> 0]

(***************************************************************************)
(* alpaca.Client.ParseOptionTicker                                         *)
(***************************************************************************)
ParseFailed == [ok |-> FALSE]

\* ParseDatePart with the date left on the underlying
ParseDatePartKeepsDate(symbol, strikeFloat, optionTypeChar, datePart, expiry) ==
    IF ~expiry.ok THEN ParseFailed
    ELSE [ok |-> TRUE,
          Underlying |-> datePart,
          Expiry |-> expiry.date,
          Type |-> optionTypeChar,
          StrikeKind |-> strikeFloat.kind,
          StrikeMilli |-> strikeFloat.int,
          Ticker |-> symbol]

\* from the option type on: baseSymbol is the symbol without its last 8
\* characters, strikeFloat what ParseFloat made of those
ParseDatePart(symbol, strikeFloat, optionTypeChar, datePart, expiry) ==
    IF ~expiry.ok THEN ParseFailed
    ELSE [ok |-> TRUE,
          Underlying |-> DropTail_n(datePart, 6),
          Expiry |-> expiry.date,
          Type |-> optionTypeChar,
          StrikeKind |-> strikeFloat.kind,
          StrikeMilli |-> strikeFloat.int,
          Ticker |-> symbol]

ParseBaseSymbol(symbol, strikeFloat, baseSymbol) ==
    IF ~strikeFloat.ok THEN ParseFailed
    ELSE IF Len(baseSymbol) < 1 THEN ParseFailed
    ELSE IF baseSymbol[Len(baseSymbol)] \notin {"C", "P"} THEN ParseFailed
    ELSE IF Len(baseSymbol) - 1 < 6 THEN ParseFailed
    ELSE ParseDatePart(symbol, strikeFloat, baseSymbol[Len(baseSymbol)],
                       DropTail_n(baseSymbol, 1),
                       ParseDate(Tail_n(DropTail_n(baseSymbol, 1), 6)))

ParseOptionTicker(symbol) ==
    IF Len(symbol) = 0 THEN ParseFailed
    ELSE IF Len(symbol) < 8 THEN ParseFailed
    ELSE ParseBaseSymbol(symbol, ParseFloat(Tail_n(symbol, 8)), DropTail_n(symbol, 8))

(***************************************************************************)
(* alpaca.Client.GetOptionsPositions: the account positions (a sequence of *)
(* symbols) whose symbol parses as an option on underlyingTicker           *)
(***************************************************************************)
\* KeepPosition keeping calls only
KeepPositionCallsOnly(position, parsedOption, underlyingTicker) ==
    IF ~parsedOption.ok THEN <<>>
    ELSE IF parsedOption.Underlying = underlyingTicker /\ parsedOption.Type = "C" THEN <<position>>
    ELSE <<>>

\* one turn of the loop: position is kept when its symbol parsed and the
\* underlying matches
KeepPosition(position, parsedOption, underlyingTicker) ==
    IF ~parsedOption.ok THEN <<>>
    ELSE IF parsedOption.Underlying = underlyingTicker THEN <<position>>
    ELSE <<>>

RECURSIVE FilterOptionPositions(_, _)
FilterOptionPositions(allPositions, underlyingTicker) ==
    IF Len(allPositions) = 0 THEN <<>>
    ELSE KeepPosition(Head(allPositions), ParseOptionTicker(Head(allPositions)), underlyingTicker)
         \o FilterOptionPositions(Tail(allPositions), underlyingTicker)

\* fetched: whether tradingClient.GetPositions succeeded
GetOptionsPositions(fetched, allPositions, underlyingTicker) ==
    IF Len(underlyingTicker) = 0 THEN [err |-> "underlying ticker cannot be empty", positions |-> <<>>]
    ELSE IF ~fetched THEN [err |-> "failed to get all positions", positions |-> <<>>]
    ELSE [err |-> "nil", positions |-> FilterOptionPositions(allPositions, underlyingTicker)]

(***************************************************************************)
(* alpaca.Client.GetCallLeapsByDelta.  An option chain is a function from  *)
(* symbols to snapshots [greeks, delta, quote]: greeks tells whether       *)
(* snapshot.Greeks is non-nil, delta is in hundredths, quote is            *)
(* [present, bid, ask] in cents.  Go iterates the map in an unspecified    *)
(* order and the sort on expiry keeps ties in that order, so among the     *)
(* entries of the earliest expiry that share the minimum delta any one may *)
(* come first: the operator yields the set of outcomes the call can have.  *)
(***************************************************************************)
NoSnapshot == [greeks |-> FALSE, delta |-> 0, quote |-> [present |-> FALSE, bid |-> 0, ask |-> 0]]
NoSymbol == <<>>

\* Candidate without the check that the entry has greeks
CandidateWithoutGreeks(symbol, snapshot, minDelta, option) ==
    IF snapshot.delta >= minDelta /\ option.ok
    THEN {[symbol |-> symbol, snapshot |-> snapshot, delta |-> snapshot.delta,
           expiry |-> option.Expiry]}
    ELSE {}

\* a candidate, as the loop over the chain appends it to validOptions
Candidate(symbol, snapshot, minDelta, option) ==
    IF snapshot.greeks /\ snapshot.delta >= minDelta /\ option.ok
    THEN {[symbol |-> symbol, snapshot |-> snapshot, delta |-> snapshot.delta,
           expiry |-> option.Expiry]}
    ELSE {}

ValidOptions(optionChain, minDelta) ==
    UNION {Candidate(symbol, optionChain[symbol], minDelta, ParseOptionTicker(symbol)) :
            symbol \in DOMAIN optionChain}

\* validOptions[0].expiry after the sort by expiry
EarliestExpiry(validOptions) ==
    CHOOSE e \in {o.expiry : o \in validOptions} : \A o \in validOptions : e <= o.expiry

EarliestExpiryOptions(validOptions, earliestExpiry) ==
    {o \in validOptions : o.expiry = earliestExpiry}

\* MinDeltaOptions without the comparison of the deltas
MinDeltaOptionsUncompared(earliestExpiryOptions) == earliestExpiryOptions

\* the entries the minimum-delta loop can end on: the first of the least
\* delta, in an order that the map iteration decides
MinDeltaOptions(earliestExpiryOptions) ==
    {o \in earliestExpiryOptions : \A other \in earliestExpiryOptions : o.delta <= other.delta}

SelectFrom(validOptions) ==
    IF validOptions = {}
    THEN {[err |-> "no call LEAPS options found with delta", symbol |-> NoSymbol, snapshot |-> NoSnapshot]}
    ELSE {[err |-> "nil", symbol |-> o.symbol, snapshot |-> o.snapshot] :
            o \in MinDeltaOptions(EarliestExpiryOptions(validOptions, EarliestExpiry(validOptions)))}

\* fetched: whether marketDataClient.GetOptionChain succeeded
GetCallLeapsByDelta(fetched, optionChain, underlyingTicker, minDelta) ==
    IF Len(underlyingTicker) = 0
    THEN {[err |-> "underlying ticker cannot be empty", symbol |-> NoSymbol, snapshot |-> NoSnapshot]}
    ELSE IF minDelta <= 0
    THEN {[err |-> "minimum delta must be greater than 0", symbol |-> NoSymbol, snapshot |-> NoSnapshot]}
    ELSE IF ~fetched
    THEN {[err |-> "failed to get option chain", symbol |-> NoSymbol, snapshot |-> NoSnapshot]}
    ELSE IF DOMAIN optionChain = {}
    THEN {[err |-> "no call LEAPS options found", symbol |-> NoSymbol, snapshot |-> NoSnapshot]}
    ELSE SelectFrom(ValidOptions(optionChain, minDelta))

\* SelectorFetchesChain with the chain fetched before minDelta is checked
SelectorFetchesChainFirst(underlyingTicker, minDelta) == Len(underlyingTicker) # 0

\* whether GetCallLeapsByDelta calls the broker: the argument checks come first
SelectorFetchesChain(underlyingTicker, minDelta) ==
    Len(underlyingTicker) # 0 /\ minDelta > 0

(***************************************************************************)
(* float64 arithmetic, as the prices and sizes are computed in it.  A      *)
(* natural number of any size is a sequence of limbs, least significant    *)
(* first, without leading zero limbs; a non-negative float64 is m * 2^e    *)
(* with m a number of exactly 53 bits, or zero (m = <<>>).  Every          *)
(* operation rounds to nearest, ties to even, as IEEE 754 has it; the      *)
(* values met here are far from overflow and from the subnormals.          *)
(***************************************************************************)
LimbBits == 15
LimbBase == 2 ^ LimbBits
MantissaBits == 53

RECURSIVE BigNorm(_)
BigNorm(a) ==
    IF Len(a) > 0 /\ a[Len(a)] = 0 THEN BigNorm(SubSeq(a, 1, Len(a) - 1)) ELSE a

RECURSIVE BigFromInt(_)
BigFromInt(n) == IF n = 0 THEN <<>> ELSE <<n % LimbBase>> \o BigFromInt(n \div LimbBase)

RECURSIVE BigToInt(_)
BigToInt(a) == IF a = <<>> THEN 0 ELSE Head(a) + LimbBase * BigToInt(Tail(a))

LowLimb(a) == IF a = <<>> THEN 0 ELSE Head(a)
HighLimbs(a) == IF a = <<>> THEN <<>> ELSE Tail(a)

RECURSIVE AddWithCarry(_, _, _)
AddWithCarry(a, b, carry) ==
    IF a = <<>> /\ b = <<>>
    THEN IF carry = 0 THEN <<>> ELSE <<carry>>
    ELSE <<(LowLimb(a) + LowLimb(b) + carry) % LimbBase>>
         \o AddWithCarry(HighLimbs(a), HighLimbs(b), (LowLimb(a) + LowLimb(b) + carry) \div LimbBase)

BigAdd(a, b) == AddWithCarry(a, b, 0)

\* a - b for a >= b
RECURSIVE SubWithBorrow(_, _, _)
SubWithBorrow(a, b, borrow) ==
    IF a = <<>> THEN <<>>
    ELSE <<(Head(a) + LimbBase - LowLimb(b) - borrow) % LimbBase>>
         \o SubWithBorrow(Tail(a), HighLimbs(b),
                          1 - ((Head(a) + LimbBase - LowLimb(b) - borrow) \div LimbBase))

BigSub(a, b) == BigNorm(SubWithBorrow(a, b, 0))

\* a * k + carry for one limb k
RECURSIVE MulLimb(_, _, _)
MulLimb(a, k, carry) ==
    IF a = <<>>
    THEN IF carry = 0 THEN <<>> ELSE <<carry>>
    ELSE <<(Head(a) * k + carry) % LimbBase>> \o MulLimb(Tail(a), k, (Head(a) * k + carry) \div LimbBase)

ShiftLimb(a) == IF a = <<>> THEN <<>> ELSE <<0>> \o a

RECURSIVE MulLimbs(_, _)
MulLimbs(a, b) ==
    IF b = <<>> THEN <<>>
    ELSE BigAdd(MulLimb(a, Head(b), 0), ShiftLimb(MulLimbs(a, Tail(b))))

BigMul(a, b) == BigNorm(MulLimbs(a, b))

RECURSIVE LessFrom(_, _, _)
LessFrom(a, b, i) ==
    IF i = 0 THEN FALSE
    ELSE IF a[i] # b[i] THEN a[i] < b[i]
    ELSE LessFrom(a, b, i - 1)

BigLess(a, b) == IF Len(a) # Len(b) THEN Len(a) < Len(b) ELSE LessFrom(a, b, Len(a))

ZeroLimbs(n) == [i \in 1..n |-> 0]

\* a * 2^k
BigShl(a, k) == BigNorm(ZeroLimbs(k \div LimbBits) \o MulLimb(a, 2 ^ (k % LimbBits), 0))

\* the remainder and the quotient of a by one limb d
RECURSIVE RemLimb(_, _)
RemLimb(a, d) == IF a = <<>> THEN 0 ELSE (RemLimb(Tail(a), d) * LimbBase + Head(a)) % d

RECURSIVE QuotLimb(_, _)
QuotLimb(a, d) ==
    IF a = <<>> THEN <<>>
    ELSE <<(RemLimb(Tail(a), d) * LimbBase + Head(a)) \div d>> \o QuotLimb(Tail(a), d)

DropLimbs(a, n) == IF n >= Len(a) THEN <<>> ELSE SubSeq(a, n + 1, Len(a))

\* a \div 2^k
BigShr(a, k) == BigNorm(QuotLimb(DropLimbs(a, k \div LimbBits), 2 ^ (k % LimbBits)))

RECURSIVE LimbBitLen(_)
LimbBitLen(x) == IF x = 0 THEN 0 ELSE 1 + LimbBitLen(x \div 2)

BitLen(a) == IF a = <<>> THEN 0 ELSE LimbBits * (Len(a) - 1) + LimbBitLen(a[Len(a)])

IsOdd(a) == a # <<>> /\ a[1] % 2 = 1

\* a * k for one limb k
BigMulInt(a, k) == BigNorm(MulLimb(a, k, 0))

(* Long division, limb by limb, of n * LimbBase^k by d, for n and d of one   *)
(* bit length whose leading limb is full (at least LimbBase / 2): the first *)
(* digit of the quotient is 0 or 1, and each further one is the t with      *)
(* t * d <= LimbBase * rem < (t + 1) * d, which is at most two below the    *)
(* quotient of the two leading limbs of the remainder by the leading limb   *)
(* of d.                                                                    *)
LimbAt(a, i) == IF i <= Len(a) THEN a[i] ELSE 0

DigitEstimate(r, d) ==
    IF (LimbAt(r, Len(d) + 1) * LimbBase + LimbAt(r, Len(d))) \div d[Len(d)] >= LimbBase
    THEN LimbBase - 1
    ELSE (LimbAt(r, Len(d) + 1) * LimbBase + LimbAt(r, Len(d))) \div d[Len(d)]

DigitsNear(estimate) == {t \in (estimate - 2)..estimate : t >= 0}

TakeDigit(q, r, d, t) ==
    [quot |-> BigAdd(BigShl(q, LimbBits), BigFromInt(t)), rem |-> BigSub(r, BigMulInt(d, t))]

WithDigit(q, r, d) ==
    TakeDigit(q, r, d,
        CHOOSE t \in DigitsNear(DigitEstimate(r, d)) :
            ~BigLess(r, BigMulInt(d, t)) /\ BigLess(r, BigMulInt(d, t + 1)))

NextDigit(sofar, d) == WithDigit(sofar.quot, BigShl(sofar.rem, LimbBits), d)

RECURSIVE DivScaled(_, _, _)
DivScaled(n, d, k) ==
    IF k = 0
    THEN IF BigLess(n, d) THEN [quot |-> <<>>, rem |-> n] ELSE [quot |-> <<1>>, rem |-> BigSub(n, d)]
    ELSE CHOOSE next \in {NextDigit(sofar, d) : sofar \in {DivScaled(n, d, k - 1)}} : TRUE

FloatZero == [m |-> <<>>, e |-> 0]

\* q + 1 carried out of 53 bits
Renormalised(m, e) ==
    IF BitLen(m) > MantissaBits THEN [m |-> BigShr(m, 1), e |-> e + 1] ELSE [m |-> m, e |-> e]

\* q: the leading 53 bits, rem: what was cut off, half: half a unit of q
RoundedCut(q, rem, half, e, sticky) ==
    IF BigLess(half, rem) \/ (rem = half /\ (sticky \/ IsOdd(q)))
    THEN Renormalised(BigAdd(q, <<1>>), e)
    ELSE [m |-> q, e |-> e]

RoundedAt(n, e, sticky, k, q) ==
    RoundedCut(q, BigSub(n, BigShl(q, k)), BigShl(<<1>>, k - 1), e + k, sticky)

RoundedOf(n, e, sticky, bits) ==
    IF bits = 0 THEN FloatZero
    ELSE IF bits <= MantissaBits
    THEN [m |-> BigShl(n, MantissaBits - bits), e |-> e - (MantissaBits - bits)]
    ELSE RoundedAt(n, e, sticky, bits - MantissaBits, BigShr(n, bits - MantissaBits))

\* the float64 nearest to n * 2^e, or to a value just above it (sticky)
Rounded(n, e, sticky) == RoundedOf(n, e, sticky, BitLen(n))

\* float64(n) for an integer n >= 0
FloatOf(n) == Rounded(BigFromInt(n), 0, FALSE)

FloatMul(x, y) == Rounded(BigMul(x.m, y.m), x.e + y.e, FALSE)

FloatAddAt(x, y, e) ==
    Rounded(BigAdd(BigShl(x.m, x.e - e), BigShl(y.m, y.e - e)), e, FALSE)

FloatAdd(x, y) == FloatAddAt(x, y, IF x.e < y.e THEN x.e ELSE y.e)

\* the quotient is carried to GuardDigits limbs below the leading digit
GuardDigits == 4
GuardBits == LimbBits * GuardDigits

\* the 53 bits of a mantissa moved up to fill its leading limb
MantissaLimbs == 4
Normal(m) == BigShl(m, LimbBits * MantissaLimbs - MantissaBits)

FloatQuot(x, y, division) ==
    Rounded(division.quot, x.e - GuardBits - y.e, division.rem # <<>>)

\* x / y for y > 0
FloatDiv(x, y) ==
    IF x.m = <<>> THEN FloatZero
    ELSE FloatQuot(x, y, DivScaled(Normal(x.m), Normal(y.m), GuardDigits))

FloatQuotInt(x, d, shifted) ==
    Rounded(BigNorm(QuotLimb(shifted, d)), x.e - GuardBits, RemLimb(shifted, d) # 0)

\* x / float64(d) for an integer 0 < d < 2^15
FloatDivInt(x, d) ==
    IF x.m = <<>> THEN FloatZero ELSE FloatQuotInt(x, d, BigShl(x.m, GuardBits))

\* int(x) for x >= 0
FloatToInt(x) ==
    IF x.e >= 0 THEN BigToInt(BigShl(x.m, x.e)) ELSE BigToInt(BigShr(x.m, 0 - x.e))

(***************************************************************************)
(* alpaca.Client.PlaceOptionLimitOrderWithTakeProfit, up to the broker     *)
(* call: the validations and the order it plans.  investmentSize is the    *)
(* fraction num/den of cents (the buying power divided by the remaining    *)
(* spots), prices are whole cents, and every product and quotient is the   *)
(* float64 one of the code:                                                *)
(*   limitPrice      = float64(int(ask * 0.99 * 100)) / 100                *)
(*   takeProfitPrice = float64(int(limitPrice * (1 + pct/100) * 100)) / 100*)
(*   quantity        = int(investmentSize / (ask * 100))                   *)
(***************************************************************************)
NoPlan == [quantity |-> 0, limitPrice |-> 0, takeProfitPrice |-> 0]

\* the float64 constants 100 and 0.99
Hundred == FloatOf(100)

NinetyNinePercent == FloatDivInt(FloatOf(99), 100)

\* the float64 of a price of whole cents, as the JSON decoder reads it
PriceOf(cents) == FloatDivInt(FloatOf(cents), 100)

\* the float64 of buyingPower / float64(remainingSpots)
BudgetOf(investmentSize) == FloatDivInt(PriceOf(investmentSize.num), investmentSize.den)

\* 1 + takeProfitPercentage/100
ProfitFactor(takeProfitPercentage) ==
    FloatAdd(FloatOf(1), FloatDivInt(FloatOf(takeProfitPercentage), 100))

\* the cents of limitPrice
LimitPrice(askPrice) ==
    FloatToInt(FloatMul(FloatMul(PriceOf(askPrice), NinetyNinePercent), Hundred))

\* the cents of takeProfitPrice
TakeProfitPrice(limitPrice, takeProfitPercentage) ==
    FloatToInt(FloatMul(FloatMul(PriceOf(limitPrice), ProfitFactor(takeProfitPercentage)), Hundred))

Quantity(investmentSize, askPrice) ==
    FloatToInt(FloatDiv(BudgetOf(investmentSize), FloatMul(PriceOf(askPrice), Hundred)))

\* the quantity check and the request handed to PlaceOrder
PlannedOrder(quantity, limitPrice, takeProfitPercentage) ==
    IF quantity <= 0
    THEN [err |-> "calculated quantity is 0 or negative", plan |-> NoPlan]
    ELSE [err |-> "nil",
          plan |-> [quantity |-> quantity,
                    limitPrice |-> limitPrice,
                    takeProfitPrice |-> TakeProfitPrice(limitPrice, takeProfitPercentage)]]

\* PlanOrder without the check of the bid and the ask; the quotient by an ask
\* of zero or less is no positive quantity
PlanOrderNoPriceCheck(investmentSize, optionSymbol, optionQuote, takeProfitPercentage) ==
    IF Len(optionSymbol) = 0 THEN [err |-> "option symbol cannot be empty", plan |-> NoPlan]
    ELSE IF ~optionQuote.present THEN [err |-> "option quote cannot be nil", plan |-> NoPlan]
    ELSE IF investmentSize.num <= 0 THEN [err |-> "investment size must be greater than 0", plan |-> NoPlan]
    ELSE IF takeProfitPercentage <= 0 THEN [err |-> "take profit percentage must be greater than 0", plan |-> NoPlan]
    ELSE IF optionQuote.ask <= 0 THEN [err |-> "calculated quantity is 0 or negative", plan |-> NoPlan]
    ELSE PlannedOrder(Quantity(investmentSize, optionQuote.ask),
                      LimitPrice(optionQuote.ask), takeProfitPercentage)

PlanOrder(investmentSize, optionSymbol, optionQuote, takeProfitPercentage) ==
    IF Len(optionSymbol) = 0 THEN [err |-> "option symbol cannot be empty", plan |-> NoPlan]
    ELSE IF ~optionQuote.present THEN [err |-> "option quote cannot be nil", plan |-> NoPlan]
    ELSE IF investmentSize.num <= 0 THEN [err |-> "investment size must be greater than 0", plan |-> NoPlan]
    ELSE IF takeProfitPercentage <= 0 THEN [err |-> "take profit percentage must be greater than 0", plan |-> NoPlan]
    ELSE IF optionQuote.bid <= 0 \/ optionQuote.ask <= 0 THEN [err |-> "invalid bid/ask prices", plan |-> NoPlan]
    ELSE PlannedOrder(Quantity(investmentSize, optionQuote.ask),
                      LimitPrice(optionQuote.ask), takeProfitPercentage)

(***************************************************************************)
(* notification.Client.  A webhook URL is modelled by whether it is set.   *)
(* sendNotification posts nothing when the URL is unset; otherwise the     *)
(* post is delivered, fails in transport, or is answered with a non-2xx    *)
(* status.  Every method discards sendNotification's result.               *)
(***************************************************************************)
NotifierMethods ==
    {"OrderPlaced", "Failure", "ActionNeeded", "MaxActiveOptions", "NoGapDown", "MarketClosed"}

Deliveries(webhookSet) ==
    IF webhookSet THEN {"delivered", "transport error", "bad status"} ELSE {"not sent"}

\* what sendNotification returns
sendNotification(delivery) ==
    IF delivery \in {"transport error", "bad status"} THEN "err" ELSE "nil"

\* NotifierWebhook with every method posting to the normal webhook
NotifierWebhookAllNormal(method) == "normal"

\* the webhook each method posts to, and its type tag
NotifierWebhook(method) ==
    IF method \in {"NoGapDown", "MarketClosed"} THEN "noisy" ELSE "normal"

\* NotifierTag with NoGapDown tagged as MaxActiveOptions is
NotifierTagShared(method) ==
    CASE method = "OrderPlaced" -> "Order Placed"
      [] method = "Failure" -> "Error occurred"
      [] method = "ActionNeeded" -> "Action needed"
      [] method = "MaxActiveOptions" -> "Skipping"
      [] method = "NoGapDown" -> "Skipping"
      [] method = "MarketClosed" -> "Market closed"

NotifierTag(method) ==
    CASE method = "OrderPlaced" -> "Order Placed"
      [] method = "Failure" -> "Error occurred"
      [] method = "ActionNeeded" -> "Action needed"
      [] method = "MaxActiveOptions" -> "Skipping"
      [] method = "NoGapDown" -> "No gap down"
      [] method = "MarketClosed" -> "Market closed"

\* NotifierReturn with Failure returning nil
NotifierReturnNil(method, sent, err) ==
    IF method = "ActionNeeded" THEN err ELSE "nil"

\* NotifierReturn handing sendNotification's result on to the caller
NotifierReturnSent(method, sent, err) ==
    IF method = "Failure" THEN "err"
    ELSE IF method = "ActionNeeded" THEN err
    ELSE sent

\* what the method returns to its caller: sent is sendNotification's result,
\* err the error handed to ActionNeeded
NotifierReturn(method, sent, err) ==
    IF method = "Failure" THEN "err"
    ELSE IF method = "ActionNeeded" THEN err
    ELSE "nil"

(***************************************************************************)
(* strategies.NewTwoPercentDown: MAX_ACTIVE_OPTIONS through strconv.Atoi   *)
(***************************************************************************)
\* strconv.Atoi: an optional sign and decimal digits
Atoi(s) ==
    LET signed == Len(s) >= 1 /\ s[1] \in {"+", "-"}
        body == IF signed THEN Tail(s) ELSE s
    IN  IF Len(body) = 0 \/ ~AllDigits(body) THEN [ok |-> FALSE, value |-> 0]
        ELSE [ok |-> TRUE,
              value |-> IF signed /\ s[1] = "-" THEN 0 - DecimalValue(body) ELSE DecimalValue(body)]

\* MaxActiveOptionsFrom without the check parsed > 0
MaxActiveOptionsFromAnyInteger(envMax, parsed) ==
    IF Len(envMax) # 0 /\ parsed.ok
    THEN parsed.value
    ELSE DefaultMaxActiveOptions

\* parsed: what strconv.Atoi made of envMax
MaxActiveOptionsFrom(envMax, parsed) ==
    IF Len(envMax) # 0 /\ parsed.ok /\ parsed.value > 0
    THEN parsed.value
    ELSE DefaultMaxActiveOptions

NewTwoPercentDown(envMax) == MaxActiveOptionsFrom(envMax, Atoi(envMax))

(***************************************************************************)
(* The decisions of TwoPercentDown.Run and calculateInvestmentSize         *)
(***************************************************************************)
\* IsGapDown with the threshold excluded
IsGapDownStrict(currentPrice, yesterdayClose) ==
    /\ yesterdayClose > 0
    /\ (currentPrice - yesterdayClose) * 100 < GapThresholdPercent * yesterdayClose

\* changePercent := ((currentPrice - yesterdayClose) / yesterdayClose) * 100
\* changePercent <= -2.0, for prices >= 0.  A zero close divides by zero: the
\* float64 quotient is +Inf or NaN, and neither is <= -2.0.
IsGapDown(currentPrice, yesterdayClose) ==
    /\ yesterdayClose > 0
    /\ (currentPrice - yesterdayClose) * 100 <= GapThresholdPercent * yesterdayClose

\* CapacityReached with the cap itself let through
CapacityReachedAboveCap(openCount, maxActive) == openCount > maxActive

\* len(openOptions) >= s.maxActiveOptions
CapacityReached(openCount, maxActive) == openCount >= maxActive

\* RemainingSpots counting one spot too many
RemainingSpotsOffByOne(maxActive, openCount) == maxActive - openCount + 1

\* remainingSpots := s.maxActiveOptions - len(openOptions)
RemainingSpots(maxActive, openCount) == maxActive - openCount

\* InvestmentSize with the buying power left undivided
InvestmentSizeUndivided(buyingPower, remainingSpots) == [num |-> buyingPower, den |-> 1]

\* investmentSize := buyingPower / float64(remainingSpots)
InvestmentSize(buyingPower, remainingSpots) == [num |-> buyingPower, den |-> remainingSpots]

NoInvestment == [num |-> 0, den |-> 1]

\* calculateInvestmentSize, after the positions are read: got is what
\* GetOptionsPositions returned, accountFetched whether GetAccount succeeded
SizeFor(maxActive, got, accountFetched, buyingPower) ==
    IF got.err # "nil"
    THEN [err |-> "failed to get QQQ option positions", investmentSize |-> NoInvestment,
          sdk |-> <<"GetPositions">>]
    ELSE IF RemainingSpots(maxActive, Len(got.positions)) <= 0
    THEN [err |-> "no remaining active option spots available", investmentSize |-> NoInvestment,
          sdk |-> <<"GetPositions">>]
    ELSE IF ~accountFetched
    THEN [err |-> "failed to get non-marginable buying power", investmentSize |-> NoInvestment,
          sdk |-> <<"GetPositions", "GetAccount">>]
    ELSE [err |-> "nil",
          investmentSize |-> InvestmentSize(buyingPower, RemainingSpots(maxActive, Len(got.positions))),
          sdk |-> <<"GetPositions", "GetAccount">>]

calculateInvestmentSize(maxActive, fetched, allPositions, accountFetched, buyingPower) ==
    SizeFor(maxActive, GetOptionsPositions(fetched, allPositions, ticker), accountFetched, buyingPower)

(***************************************************************************)
(* What the broker and the environment supply: small sets of values that   *)
(* reach each branch of the run.                                           *)
(***************************************************************************)
Strike400 == <<"0", "0", "4", "0", "0", "0", "0", "0">>
Strike410 == <<"0", "0", "4", "1", "0", "0", "0", "0">>
Strike420 == <<"0", "0", "4", "2", "0", "0", "0", "0">>
Jan2027 == <<"2", "7", "0", "1", "1", "5">>
Jun2026 == <<"2", "6", "0", "6", "1", "8">>

\* QQQ270115C00400000, QQQ270115C00410000, QQQ260618C00410000, QQQ260618C00420000
SymA == ticker \o Jan2027 \o <<"C">> \o Strike400
SymB == ticker \o Jan2027 \o <<"C">> \o Strike410
SymC == ticker \o Jun2026 \o <<"C">> \o Strike410
SymD == ticker \o Jun2026 \o <<"C">> \o Strike420
\* a chain key that is no option symbol, a stock position, an option on SPY
SymBad == ticker \o <<"2", "6", "1", "3", "1", "8">> \o <<"C">> \o Strike410
SymStock == <<"A", "A", "P", "L">>
SymSpy == <<"S", "P", "Y">> \o Jan2027 \o <<"P">> \o Strike400

Quote(bid, ask) == [present |-> TRUE, bid |-> bid, ask |-> ask]
NoQuote == [present |-> FALSE, bid |-> 0, ask |-> 0]
Snapshot(greeks, delta, quote) == [greeks |-> greeks, delta |-> delta, quote |-> quote]

ChainEmpty == [s \in {} |-> NoSnapshot]
\* no entry qualifies: no greeks, delta below the minimum, unparseable symbol
ChainNoMatch ==
    [s \in {SymA, SymB, SymBad} |->
        IF s = SymA THEN Snapshot(FALSE, 0, Quote(1200, 1234))
        ELSE IF s = SymB THEN Snapshot(TRUE, 55, Quote(1200, 1234))
        ELSE Snapshot(TRUE, 90, Quote(1200, 1234))]
\* A: 0.65 and B: 0.70 expiring 2027-01, C: 0.62 expiring 2026-06
ChainExample ==
    [s \in {SymA, SymB, SymC} |->
        IF s = SymA THEN Snapshot(TRUE, 65, Quote(1500, 1550))
        ELSE IF s = SymB THEN Snapshot(TRUE, 70, Quote(1700, 1750))
        ELSE Snapshot(TRUE, 62, Quote(1200, 1234))]
\* two entries of the earliest expiry share the minimum delta; one has no quote
ChainTie ==
    [s \in {SymC, SymD} |->
        IF s = SymC THEN Snapshot(TRUE, 62, Quote(1200, 1234))
        ELSE Snapshot(TRUE, 62, NoQuote)]
\* a quote with no bid and an ask of one cent
ChainNoBid == [s \in {SymD} |-> Snapshot(TRUE, 80, Quote(0, 1))]

Chains == {ChainEmpty, ChainNoMatch, ChainExample, ChainTie, ChainNoBid}

\* yesterday's close and the latest ask, in cents
ClosePrices == {0, 10000}
QuotePrices == {9790, 9800, 9801}
\* non-marginable buying power, in cents
BuyingPowers == {0, 200000, 1000000}
\* the account's position list when the program is first run
InitialPositions == {<<>>, <<SymStock>>, <<SymSpy, SymA>>}
\* MAX_ACTIVE_OPTIONS in the environment: unset, "1", "2", "0"
EnvValues == {<<>>, <<"1">>, <<"2">>, <<"0">>}
\* identifiers the broker gives an accepted order
OrderIds == {"order-1", "order-2"}

VARIABLES
    maxActiveOptions,    \* TwoPercentDown.maxActiveOptions
    noisyWebhookURL,     \* notification.Client.noisyWebhookURL is set
    normalWebhookURL,    \* notification.Client.normalWebhookURL is set
    positions,           \* broker: the account's open positions (symbols)
    pendingOrders,       \* broker: accepted orders not yet open positions
    lateFill,            \* history: a run began while an order was pending
    pc,                  \* where Run stands
    yesterdayClose,      \* Run's locals
    currentPrice,
    openOptions,
    optionSymbol,
    optionSnapshot,
    sizingOpenOptions,   \* calculateInvestmentSize's openOptions
    investmentSize,
    plan,                \* the order PlaceOptionLimitOrderWithTakeProfit plans
    order,               \* the order the broker accepted in this run
    calls,               \* history: the broker SDK calls of this run
    notifications,       \* history: the notifier calls of this run
    result,              \* what Run returned: "none" while running
    outcome,             \* the terminal state of the run
    failure,             \* the error that ended the run
    input,               \* the arguments of a method that is called on its own
    output               \* what its calls returned, one entry per call

configVars == <<maxActiveOptions, noisyWebhookURL, normalWebhookURL>>
brokerVars == <<positions, pendingOrders>>
localVars == <<yesterdayClose, currentPrice, openOptions, optionSymbol, optionSnapshot,
               sizingOpenOptions, investmentSize, plan, order>>
runVars == <<pc, calls, notifications, result, outcome, failure>>
callVars == <<input, output>>
vars == <<configVars, brokerVars, lateFill, localVars, runVars, callVars>>

NoOrder == [id |-> "", symbol |-> NoSymbol, quantity |-> 0, limitPrice |-> 0, takeProfitPrice |-> 0]

\* one call of a broker method by the run: whether it returned without error
\* and the SDK requests it made
Call(name, ok, sdk) == [call |-> name, ok |-> ok, sdk |-> sdk]

NoInput == [method |-> "none"]

Init ==
    /\ input = NoInput
    /\ output = <<>>
    /\ \E envMax \in EnvValues : maxActiveOptions = NewTwoPercentDown(envMax)
    /\ noisyWebhookURL \in BOOLEAN
    /\ normalWebhookURL \in BOOLEAN
    /\ positions \in InitialPositions
    /\ pendingOrders = <<>>
    /\ lateFill = FALSE
    /\ pc = "Idle"
    /\ yesterdayClose = 0
    /\ currentPrice = 0
    /\ openOptions = <<>>
    /\ optionSymbol = NoSymbol
    /\ optionSnapshot = NoSnapshot
    /\ sizingOpenOptions = <<>>
    /\ investmentSize = NoInvestment
    /\ plan = NoPlan
    /\ order = NoOrder
    /\ calls = <<>>
    /\ notifications = <<>>
    /\ result = "none"
    /\ outcome = "none"
    /\ failure = "nil"

(***************************************************************************)
(* How a run ends.                                                         *)
(***************************************************************************)
WebhookFor(method) ==
    IF NotifierWebhook(method) = "noisy" THEN noisyWebhookURL ELSE normalWebhookURL

\* return s.notifier.<method>(message): the post, if any, and Run's result
Notified(method, orderId) ==
    \E delivery \in Deliveries(WebhookFor(method)) :
        /\ notifications' = Append(notifications,
                [method |-> method, tag |-> NotifierTag(method),
                 webhook |-> NotifierWebhook(method), delivery |-> delivery,
                 orderId |-> orderId])
        /\ result' = NotifierReturn(method, sendNotification(delivery), "nil")

\* return s.notifier.Failure(...)
FailWith(err) ==
    /\ Notified("Failure", "")
    /\ pc' = "Done"
    /\ outcome' = "Failed"
    /\ failure' = err

\* return fmt.Errorf("failed to place order: %w", err)
ReturnPlaceOrderError(err) ==
    /\ notifications' = notifications
    /\ result' = "err"
    /\ pc' = "Done"
    /\ outcome' = "Failed"
    /\ failure' = err

(***************************************************************************)
(* TwoPercentDown.Run, one action per step.                                *)
(***************************************************************************)
\* the process is invoked
StartRun ==
    /\ pc = "Idle"
    /\ pc' = "FetchingBaseline"
    /\ lateFill' = (lateFill \/ pendingOrders # <<>>)
    /\ UNCHANGED <<callVars, configVars, brokerVars, localVars, calls, notifications, result, outcome, failure>>

\* Step 1: s.broker.GetLastTradingDayClose(ctx, ticker)
FetchBaseline ==
    /\ pc = "FetchingBaseline"
    /\ \/ \* GetCalendar fails, or holds no trading day before today
          /\ calls' = Append(calls, Call("GetLastTradingDayClose", FALSE, <<"GetCalendar">>))
          /\ FailWith("failed to get last trading day")
          /\ UNCHANGED yesterdayClose
       \/ \* GetBars fails, or returns no bar
          /\ calls' = Append(calls, Call("GetLastTradingDayClose", FALSE, <<"GetCalendar", "GetBars">>))
          /\ FailWith("failed to get bars")
          /\ UNCHANGED yesterdayClose
       \/ \E close \in ClosePrices :
            /\ calls' = Append(calls, Call("GetLastTradingDayClose", TRUE, <<"GetCalendar", "GetBars">>))
            /\ yesterdayClose' = close
            /\ pc' = "FetchingCurrent"
            /\ UNCHANGED <<notifications, result, outcome, failure>>
    /\ UNCHANGED <<callVars, configVars, brokerVars, lateFill, currentPrice, openOptions, optionSymbol,
                   optionSnapshot, sizingOpenOptions, investmentSize, plan, order>>

\* Step 2: s.broker.GetLatestQuote(ctx, ticker)
FetchCurrent ==
    /\ pc = "FetchingCurrent"
    /\ \/ /\ calls' = Append(calls, Call("GetLatestQuote", FALSE, <<"GetLatestQuote">>))
          /\ FailWith("failed to get latest quote")
          /\ UNCHANGED currentPrice
       \/ \E ask \in QuotePrices :
            /\ calls' = Append(calls, Call("GetLatestQuote", TRUE, <<"GetLatestQuote">>))
            /\ currentPrice' = ask
            /\ pc' = "EvaluatingGap"
            /\ UNCHANGED <<notifications, result, outcome, failure>>
    /\ UNCHANGED <<callVars, configVars, brokerVars, lateFill, yesterdayClose, openOptions, optionSymbol,
                   optionSnapshot, sizingOpenOptions, investmentSize, plan, order>>

\* Steps 3 and 4: the gap, and the NoGapDown exit
EvaluateGap ==
    /\ pc = "EvaluatingGap"
    /\ IF IsGapDown(currentPrice, yesterdayClose)
       THEN /\ pc' = "CheckingCapacity"
            /\ UNCHANGED <<notifications, result, outcome, failure>>
       ELSE /\ Notified("NoGapDown", "")
            /\ pc' = "Done"
            /\ outcome' = "NoGap"
            /\ UNCHANGED failure
    /\ UNCHANGED <<callVars, configVars, brokerVars, lateFill, localVars, calls>>

\* s.broker.GetOptionsPositions(ctx, ticker) and the cap on open options
CheckCapacity ==
    /\ pc = "CheckingCapacity"
    /\ \E fetched \in BOOLEAN :
      \E got \in {GetOptionsPositions(fetched, positions, ticker)} :
        /\ calls' = Append(calls, Call("GetOptionsPositions", got.err = "nil", <<"GetPositions">>))
        /\ IF got.err # "nil"
           THEN /\ FailWith(got.err)
                /\ UNCHANGED openOptions
           ELSE /\ openOptions' = got.positions
                /\ IF CapacityReached(Len(got.positions), maxActiveOptions)
                   THEN /\ Notified("MaxActiveOptions", "")
                        /\ pc' = "Done"
                        /\ outcome' = "CapacityExceeded"
                        /\ UNCHANGED failure
                   ELSE /\ pc' = "SelectingContract"
                        /\ UNCHANGED <<notifications, result, outcome, failure>>
    /\ UNCHANGED <<callVars, configVars, brokerVars, lateFill, yesterdayClose, currentPrice, optionSymbol,
                   optionSnapshot, sizingOpenOptions, investmentSize, plan, order>>

\* Step 5: s.broker.GetCallLeapsByDelta(ctx, ticker, 0.60)
SelectContract ==
    /\ pc = "SelectingContract"
    /\ \E fetched \in BOOLEAN, optionChain \in Chains :
       \E got \in GetCallLeapsByDelta(fetched, optionChain, ticker, MinDeltaHundredths) :
        /\ fetched \/ optionChain = ChainEmpty
        /\ calls' = Append(calls, Call("GetCallLeapsByDelta", got.err = "nil",
                            IF SelectorFetchesChain(ticker, MinDeltaHundredths)
                            THEN <<"GetOptionChain">> ELSE <<>>))
        /\ IF got.err # "nil"
           THEN /\ FailWith(got.err)
                /\ UNCHANGED <<optionSymbol, optionSnapshot>>
           ELSE /\ optionSymbol' = got.symbol
                /\ optionSnapshot' = got.snapshot
                /\ pc' = "SizingPosition"
                /\ UNCHANGED <<notifications, result, outcome, failure>>
    /\ UNCHANGED <<callVars, configVars, brokerVars, lateFill, yesterdayClose, currentPrice, openOptions,
                   sizingOpenOptions, investmentSize, plan, order>>

\* calculateInvestmentSize: the positions, read again, and the remaining spots
SizePosition ==
    /\ pc = "SizingPosition"
    /\ \E fetched \in BOOLEAN :
      \E got \in {GetOptionsPositions(fetched, positions, ticker)} :
        /\ calls' = Append(calls, Call("GetOptionsPositions", got.err = "nil", <<"GetPositions">>))
        /\ IF got.err # "nil"
           THEN /\ FailWith(got.err)
                /\ UNCHANGED sizingOpenOptions
           ELSE /\ sizingOpenOptions' = got.positions
                /\ IF RemainingSpots(maxActiveOptions, Len(got.positions)) <= 0
                   THEN FailWith("no remaining active option spots available")
                   ELSE /\ pc' = "FetchingBuyingPower"
                        /\ UNCHANGED <<notifications, result, outcome, failure>>
    /\ UNCHANGED <<callVars, configVars, brokerVars, lateFill, yesterdayClose, currentPrice, openOptions,
                   optionSymbol, optionSnapshot, investmentSize, plan, order>>

\* calculateInvestmentSize: the buying power and the size of the investment
FetchBuyingPower ==
    /\ pc = "FetchingBuyingPower"
    /\ \/ /\ calls' = Append(calls, Call("GetNonMarginableBuyingPower", FALSE, <<"GetAccount">>))
          /\ FailWith("failed to get non-marginable buying power")
          /\ UNCHANGED investmentSize
       \/ \E buyingPower \in BuyingPowers :
            /\ calls' = Append(calls, Call("GetNonMarginableBuyingPower", TRUE, <<"GetAccount">>))
            /\ investmentSize' = InvestmentSize(buyingPower,
                                    RemainingSpots(maxActiveOptions, Len(sizingOpenOptions)))
            /\ pc' = "PlanningOrder"
            /\ UNCHANGED <<notifications, result, outcome, failure>>
    /\ UNCHANGED <<callVars, configVars, brokerVars, lateFill, yesterdayClose, currentPrice, openOptions,
                   optionSymbol, optionSnapshot, sizingOpenOptions, plan, order>>

\* s.broker.PlaceOptionLimitOrderWithTakeProfit: the validations and the plan
PlanningOrder ==
    /\ pc = "PlanningOrder"
    /\ \E planned \in {PlanOrder(investmentSize, optionSymbol, optionSnapshot.quote, TakeProfitPercent)} :
       IF planned.err # "nil"
       THEN /\ calls' = Append(calls, Call("PlaceOptionLimitOrderWithTakeProfit", FALSE, <<>>))
            /\ ReturnPlaceOrderError(planned.err)
            /\ UNCHANGED plan
       ELSE /\ plan' = planned.plan
            /\ pc' = "SubmittingOrder"
            /\ UNCHANGED <<calls, notifications, result, outcome, failure>>
    /\ UNCHANGED <<callVars, configVars, brokerVars, lateFill, yesterdayClose, currentPrice, openOptions,
                   optionSymbol, optionSnapshot, sizingOpenOptions, investmentSize, order>>

\* s.broker.PlaceOptionLimitOrderWithTakeProfit: tradingClient.PlaceOrder, and
\* the OrderPlaced exit.  The broker accepts an order only while the account
\* has room for its position (MaxPositions).
SubmitOrder ==
    /\ pc = "SubmittingOrder"
    /\ \/ /\ calls' = Append(calls, Call("PlaceOptionLimitOrderWithTakeProfit", FALSE, <<"PlaceOrder">>))
          /\ ReturnPlaceOrderError("failed to place bracket order")
          /\ UNCHANGED <<brokerVars, order>>
       \/ /\ Len(positions) + Len(pendingOrders) < MaxPositions
          /\ calls' = Append(calls, Call("PlaceOptionLimitOrderWithTakeProfit", TRUE, <<"PlaceOrder">>))
          /\ \E id \in OrderIds :
                /\ order' = [id |-> id, symbol |-> optionSymbol, quantity |-> plan.quantity,
                             limitPrice |-> plan.limitPrice, takeProfitPrice |-> plan.takeProfitPrice]
                /\ Notified("OrderPlaced", id)
          /\ pendingOrders' = Append(pendingOrders, optionSymbol)
          /\ pc' = "Done"
          /\ outcome' = "Completed"
          /\ UNCHANGED <<positions, failure>>
    /\ UNCHANGED <<callVars, configVars, lateFill, yesterdayClose, currentPrice, openOptions,
                   optionSymbol, optionSnapshot, sizingOpenOptions, investmentSize, plan>>

\* Run has returned and the process exits: nothing is kept for the next run
Exit ==
    /\ pc = "Done"
    /\ pc' = "Idle"
    /\ yesterdayClose' = 0
    /\ currentPrice' = 0
    /\ openOptions' = <<>>
    /\ optionSymbol' = NoSymbol
    /\ optionSnapshot' = NoSnapshot
    /\ sizingOpenOptions' = <<>>
    /\ investmentSize' = NoInvestment
    /\ plan' = NoPlan
    /\ order' = NoOrder
    /\ calls' = <<>>
    /\ notifications' = <<>>
    /\ result' = "none"
    /\ outcome' = "none"
    /\ failure' = "nil"
    /\ UNCHANGED <<callVars, configVars, brokerVars, lateFill>>

(***************************************************************************)
(* The broker's side: an accepted order becomes an open position, an open  *)
(* position is closed.  A run sees the account only through its two reads  *)
(* of the positions, so the account is let to change between runs and      *)
(* between the two reads; a change at any other moment of a run shows the  *)
(* run the same as one of these.                                           *)
(***************************************************************************)
AccountMayChange == pc \in {"Idle", "SizingPosition"}

FillOrder ==
    /\ AccountMayChange
    /\ pendingOrders # <<>>
    /\ positions' = Append(positions, Head(pendingOrders))
    /\ pendingOrders' = Tail(pendingOrders)
    /\ UNCHANGED <<callVars, configVars, lateFill, localVars, runVars>>

ClosePosition ==
    /\ AccountMayChange
    /\ \E i \in 1..Len(positions) :
        positions' = SubSeq(positions, 1, i - 1) \o SubSeq(positions, i + 1, Len(positions))
    /\ UNCHANGED <<callVars, configVars, pendingOrders, lateFill, localVars, runVars>>

Next ==
    \/ StartRun
    \/ FetchBaseline
    \/ FetchCurrent
    \/ EvaluateGap
    \/ CheckCapacity
    \/ SelectContract
    \/ SizePosition
    \/ FetchBuyingPower
    \/ PlanningOrder
    \/ SubmitOrder
    \/ Exit
    \/ FillOrder
    \/ ClosePosition

Spec == Init /\ [][Next]_vars

(***************************************************************************)
(* What the claims speak of.                                               *)
(***************************************************************************)
SdkCalls(c) == {c.sdk[j] : j \in DOMAIN c.sdk}
SdkCallsMade == UNION {SdkCalls(calls[i]) : i \in DOMAIN calls}
\* the calls of the run that sent an order to the broker
PlaceOrderCalls == {i \in DOMAIN calls : "PlaceOrder" \in SdkCalls(calls[i])}
CallNames == [i \in DOMAIN calls |-> calls[i].call]
StepsBeforeOrder ==
    <<"GetLastTradingDayClose", "GetLatestQuote", "GetOptionsPositions",
      "GetCallLeapsByDelta", "GetOptionsPositions", "GetNonMarginableBuyingPower">>
\* the open option positions on the underlying, as the broker holds them
OpenOptionCount == Len(FilterOptionPositions(positions, ticker))

\* C1: in a run an order is sent to the broker at most once, and only as the
\* seventh call, after the last close, the latest quote, the open positions,
\* the contract selection, the positions again and the buying power were each
\* fetched without error and the plan passed every validation (budget > 0,
\* take-profit percent > 0, bid > 0, ask > 0, quantity > 0); a call that
\* fails is the last call of its run and the run has no accepted order.
C1_OrderOnlyAfterEveryStep ==
    /\ Cardinality(PlaceOrderCalls) <= 1
    /\ \A i \in PlaceOrderCalls :
        /\ i = Len(StepsBeforeOrder) + 1
        /\ SubSeq(CallNames, 1, i - 1) = StepsBeforeOrder
        /\ \A k \in 1..(i - 1) : calls[k].ok
        /\ investmentSize.num > 0 /\ investmentSize.den > 0
        /\ TakeProfitPercent > 0
        /\ optionSnapshot.quote.present
        /\ optionSnapshot.quote.bid > 0
        /\ optionSnapshot.quote.ask > 0
        /\ plan.quantity > 0
    /\ \A i \in DOMAIN calls :
        ~calls[i].ok => (i = Len(calls) /\ pc = "Done" /\ order = NoOrder)
    /\ order # NoOrder => PlaceOrderCalls # {}

\* a run that sent its order, after the six fetches
C1_Witness ==
    /\ pc = "Done"
    /\ order # NoOrder
    /\ PlaceOrderCalls = {Len(StepsBeforeOrder) + 1}

\* C2: once both prices are fetched (close > 0) and the gap is evaluated, the
\* run has gone on to the capacity check exactly when the change is at most
\* -2% of the close, i.e. 50 * current <= 49 * close, and otherwise has ended
\* in NoGap; 100 -> 97.90 and 100 -> 98.00 go on, 100 -> 98.01 ends in NoGap.
C2_GapEvaluated ==
    /\ Len(calls) >= 2
    /\ calls[2].ok
    /\ pc # "EvaluatingGap"
    /\ yesterdayClose > 0

C3_PositionCapBoundsOrders ==
    /\ PlaceOrderCalls # {} =>
        /\ Len(openOptions) < maxActiveOptions
        /\ Len(sizingOpenOptions) < maxActiveOptions
    /\ ~lateFill => OpenOptionCount + Len(pendingOrders) <= maxActiveOptions

\* a second run after a gap down has placed a second order, which fills the cap
C3_Witness ==
    /\ ~lateFill
    /\ pc = "Done"
    /\ order # NoOrder
    /\ Len(openOptions) >= 1
    /\ order.symbol \in {openOptions[i] : i \in DOMAIN openOptions}
    /\ OpenOptionCount + Len(pendingOrders) = maxActiveOptions

\* C4: when the gap is detected and the broker reports at least
\* maxActiveOptions open option positions on the underlying, the run is over
\* in CapacityExceeded: the positions read was its last broker call (no option
\* chain, no buying power, no order), one Skipping notification was issued,
\* and Run returned nil.
C4_CapacityExceededEndsRun ==
    (/\ Len(calls) >= 3
     /\ calls[3].ok
     /\ Len(openOptions) >= maxActiveOptions) =>
        /\ pc = "Done"
        /\ outcome = "CapacityExceeded"
        /\ Len(calls) = 3
        /\ SdkCallsMade \cap {"GetOptionChain", "GetAccount", "PlaceOrder"} = {}
        /\ order = NoOrder
        /\ Len(notifications) = 1
        /\ notifications[1].tag = "Skipping"
        /\ result = "nil"

\* a run that found the cap reached
C4_Witness ==
    /\ pc = "Done"
    /\ IsGapDown(currentPrice, yesterdayClose)
    /\ Len(openOptions) >= maxActiveOptions
    /\ calls[3].ok
    /\ outcome = "CapacityExceeded"

\* the errors with which GetCallLeapsByDelta reports that no contract matches
NoMatchErrors == {"no call LEAPS options found", "no call LEAPS options found with delta"}
QuantityError == "calculated quantity is 0 or negative"
AllDeliveries == Deliveries(TRUE) \cup Deliveries(FALSE)
LastNotification == notifications[Len(notifications)]

\* C5 (as the code has it): when contract selection finds no matching
\* contract (empty chain, or no entry with greeks and delta >= minDelta), the
\* run ends Failed after its fourth call: one Failure notification is issued,
\* no order is sent, and Run returns a non-nil error.
C5_NoMatchIsReportedAsFailure ==
    failure \in NoMatchErrors =>
        /\ pc = "Done"
        /\ outcome = "Failed"
        /\ Len(calls) = 4
        /\ ~calls[4].ok
        /\ PlaceOrderCalls = {}
        /\ order = NoOrder
        /\ Len(notifications) = 1
        /\ notifications[1].method = "Failure"
        /\ result = "err"

\* C5 (as the claim has it): when contract selection finds no matching
\* contract, the run reports it through the Notifier, sends no order and
\* returns no error.
C5_NoMatchEndsWithoutError ==
    failure \in NoMatchErrors =>
        /\ Len(notifications) = 1
        /\ PlaceOrderCalls = {}
        /\ order = NoOrder
        /\ result = "nil"

\* a run whose chain held no entry with delta >= 0.60
C5_Witness ==
    /\ pc = "Done"
    /\ failure = "no call LEAPS options found with delta"
    /\ calls[4].sdk = <<"GetOptionChain">>
    /\ result = "err"

\* C6: when the computed quantity is 0, planning fails, no order is sent to
\* the broker, the outcome is reported through the Notifier, and Run returns
\* no error.
C6_ZeroQuantityReportedWithoutError ==
    failure = QuantityError =>
        /\ PlaceOrderCalls = {}
        /\ order = NoOrder
        /\ Len(notifications) = 1
        /\ result = "nil"

\* a run whose budget bought no contract: it returned the error, unreported
C6_Witness ==
    /\ pc = "Done"
    /\ failure = QuantityError
    /\ investmentSize.num > 0
    /\ Quantity(investmentSize, optionSnapshot.quote.ask) = 0
    /\ PlaceOrderCalls = {}
    /\ notifications = <<>>
    /\ result = "err"

\* C7: every run that has reached a terminal state (NoGap, CapacityExceeded,
\* Completed, Failed) has issued exactly one notification, and that of a
\* Completed run carries the identifier of the order.
C7_OneNotificationPerRun ==
    pc = "Done" =>
        /\ outcome \in {"NoGap", "CapacityExceeded", "Completed", "Failed"}
        /\ Len(notifications) = 1
        /\ outcome = "Completed" =>
            /\ order.id # ""
            /\ notifications[1].orderId = order.id

\* a Failed run that issued no notification
C7_Witness ==
    /\ pc = "Done"
    /\ outcome = "Failed"
    /\ Len(notifications) = 0

\* C8: whenever a call that reached the broker has failed, it is the last
\* call of the run (no further call, no retry), one Failure notification was
\* issued, and Run returned a non-nil error.
C8_BrokerFailureIsNotified ==
    \A i \in DOMAIN calls :
        (~calls[i].ok /\ calls[i].sdk # <<>>) =>
            /\ i = Len(calls)
            /\ pc = "Done"
            /\ result = "err"
            /\ Len(notifications) = 1
            /\ notifications[1].method = "Failure"

\* the broker refused the order: Run returned the error without a notification
C8_Witness ==
    /\ pc = "Done"
    /\ PlaceOrderCalls # {}
    /\ ~calls[Len(calls)].ok
    /\ result = "err"
    /\ \A i \in DOMAIN notifications : notifications[i].method # "Failure"

\* C9: a run that ended in NoGap returned nil, issued one NoGapDown
\* notification, whose tag no other notifier method uses, and made only the
\* last-close and latest-quote calls: no positions, option chain or buying
\* power were read and no order was sent.
C9_NoGapIsANormalOutcome ==
    outcome = "NoGap" =>
        /\ pc = "Done"
        /\ result = "nil"
        /\ Len(notifications) = 1
        /\ notifications[1].method = "NoGapDown"
        /\ \A m \in NotifierMethods \ {"NoGapDown"} : NotifierTag(m) # notifications[1].tag
        /\ CallNames = <<"GetLastTradingDayClose", "GetLatestQuote">>
        /\ SdkCallsMade \cap {"GetPositions", "GetOptionChain", "GetAccount", "PlaceOrder"} = {}
        /\ order = NoOrder

\* a change of -1.99% ended the run in NoGap
C9_Witness ==
    /\ outcome = "NoGap"
    /\ yesterdayClose = 10000
    /\ currentPrice = 9801
    /\ Len(notifications) = 1

\* C10: the step that issues a notification ends the run, and what it makes
\* Run return is the same for every outcome of the delivery (delivered,
\* transport error, non-2xx status, unset URL); the broker calls of the run
\* were all made before it and none is made after it.
C10_DeliveryDoesNotAlterRun ==
    [][/\ Len(notifications') > Len(notifications) =>
            /\ pc' = "Done"
            /\ result' = (IF notifications'[Len(notifications')].method = "Failure" THEN "err" ELSE "nil")
            /\ \A d \in AllDeliveries :
                NotifierReturn(notifications'[Len(notifications')].method,
                               sendNotification(d), "nil") = result'
       /\ (notifications # <<>> /\ calls' # calls) => (pc = "Done" /\ pc' = "Idle" /\ calls' = <<>>)
      ]_vars

\* an order was placed although the post of its notification failed
C10_Witness ==
    /\ pc = "Done"
    /\ outcome = "Completed"
    /\ Len(notifications) = 1
    /\ notifications[1].delivery \in {"transport error", "bad status"}
    /\ result = "nil"
    /\ PlaceOrderCalls # {}

(***************************************************************************)
(* The methods called on their own.  input holds the arguments of one      *)
(* method, drawn at the start; each call appends what it returned to       *)
(* output.  The strategy is at rest meanwhile.                             *)
(***************************************************************************)
MaxCalls == 2

RunAtRest ==
    /\ maxActiveOptions = DefaultMaxActiveOptions
    /\ noisyWebhookURL = FALSE
    /\ normalWebhookURL = FALSE
    /\ positions = <<>>
    /\ pendingOrders = <<>>
    /\ lateFill = FALSE
    /\ pc = "Idle"
    /\ yesterdayClose = 0
    /\ currentPrice = 0
    /\ openOptions = <<>>
    /\ optionSymbol = NoSymbol
    /\ optionSnapshot = NoSnapshot
    /\ sizingOpenOptions = <<>>
    /\ investmentSize = NoInvestment
    /\ plan = NoPlan
    /\ order = NoOrder
    /\ calls = <<>>
    /\ notifications = <<>>
    /\ result = "none"
    /\ outcome = "none"
    /\ failure = "nil"

StaysAtRest == UNCHANGED <<configVars, brokerVars, lateFill, localVars, runVars>>

(***************************************************************************)
(* alpaca.Client.GetCallLeapsByDelta on every chain over five keys.        *)
(***************************************************************************)
SelectorSymbols == {SymA, SymB, SymC, SymD, SymBad}
SelectorSnapshots ==
    {Snapshot(FALSE, 70, NoQuote), Snapshot(TRUE, 62, Quote(1200, 1234)),
     Snapshot(TRUE, 65, Quote(1500, 1550)), Snapshot(TRUE, 70, Quote(1700, 1750))}
SelectorChains == UNION {[keys -> SelectorSnapshots] : keys \in SUBSET SelectorSymbols}
\* minDelta in hundredths
SelectorMinDeltas == {0 - 10, 0, 60, 66}

SelectorInit ==
    /\ RunAtRest
    /\ output = <<>>
    /\ \E optionChain \in SelectorChains, minDelta \in SelectorMinDeltas, fetched \in BOOLEAN :
        /\ fetched \/ optionChain = ChainEmpty
        /\ input = [method |-> "GetCallLeapsByDelta", fetched |-> fetched,
                    optionChain |-> optionChain, underlyingTicker |-> ticker,
                    minDelta |-> minDelta]

CallGetCallLeapsByDelta ==
    /\ input.method = "GetCallLeapsByDelta"
    /\ Len(output) < MaxCalls
    /\ \E got \in GetCallLeapsByDelta(input.fetched, input.optionChain,
                                      input.underlyingTicker, input.minDelta) :
        output' = Append(output,
                    [err |-> got.err, symbol |-> got.symbol, snapshot |-> got.snapshot,
                     sdk |-> IF SelectorFetchesChain(input.underlyingTicker, input.minDelta)
                             THEN <<"GetOptionChain">> ELSE <<>>])
    /\ UNCHANGED input
    /\ StaysAtRest

SelectorNext == CallGetCallLeapsByDelta

SelectorSpec == SelectorInit /\ [][SelectorNext]_vars

\* the entries of the chain the selection retains, and their expiry
SelectorParsed == [s \in SelectorSymbols |-> ParseOptionTicker(s)]
Retained(optionChain, minDelta) ==
    {s \in DOMAIN optionChain :
        optionChain[s].greeks /\ optionChain[s].delta >= minDelta /\ SelectorParsed[s].ok}
ExpiryOf(symbol) == SelectorParsed[symbol].Expiry
SelectorCalled == input.method = "GetCallLeapsByDelta" /\ output # <<>>

C12_SelectionIsDeterministic ==
    SelectorCalled =>
        \A i, j \in DOMAIN output : output[i].symbol = output[j].symbol

\* two calls on one chain returned two symbols: two entries of the earliest
\* expiry share the minimum delta
C12_Witness ==
    /\ SelectorCalled
    /\ Len(output) = 2
    /\ output[1].err = "nil"
    /\ output[2].err = "nil"
    /\ output[1].symbol # output[2].symbol
    /\ ExpiryOf(output[1].symbol) = ExpiryOf(output[2].symbol)
    /\ input.optionChain[output[1].symbol].delta = input.optionChain[output[2].symbol].delta

\* C13: with minDelta <= 0 every call fails with "minimum delta must be
\* greater than 0" and does not fetch the option chain; with minDelta > 0 and
\* a fetched chain that is empty or has no entry with greeks and delta >=
\* minDelta every call fails with a "no call LEAPS options found" error; a
\* failed call returns no symbol and no snapshot.
C13_SelectorErrors ==
    SelectorCalled =>
        \A i \in DOMAIN output :
            /\ input.minDelta <= 0 =>
                /\ output[i].err = "minimum delta must be greater than 0"
                /\ output[i].sdk = <<>>
            /\ (/\ input.minDelta > 0
                /\ input.fetched
                /\ \A s \in DOMAIN input.optionChain :
                    ~(input.optionChain[s].greeks /\ input.optionChain[s].delta >= input.minDelta)) =>
                /\ output[i].err \in NoMatchErrors
                /\ output[i].sdk = <<"GetOptionChain">>
            /\ output[i].err # "nil" =>
                /\ output[i].symbol = NoSymbol
                /\ output[i].snapshot = NoSnapshot

\* a chain whose deltas are all below minDelta was refused
C13_Witness ==
    /\ SelectorCalled
    /\ input.minDelta = 66
    /\ DOMAIN input.optionChain = {SymA, SymC}
    /\ output[1].err = "no call LEAPS options found with delta"
    /\ output[1].symbol = NoSymbol

(***************************************************************************)
(* calculateInvestmentSize on a strategy built by NewTwoPercentDown from   *)
(* MAX_ACTIVE_OPTIONS, for accounts with up to six options on QQQ.         *)
(***************************************************************************)
SizerEnvValues == {<<>>, <<"0">>, <<"-", "1">>, <<"x">>, <<"1">>, <<"3">>, <<"5">>}
SixOptions == <<SymA, SymB, SymC, SymD, SymA, SymB>>
SizerPositions ==
    {SubSeq(SixOptions, 1, n) : n \in 0..Len(SixOptions)} \cup {<<SymStock, SymA, SymSpy, SymC, SymD>>}
\* non-marginable buying power, in cents
SizerBuyingPowers == {0 - 100000, 0, 33333, 100000}

SizerInit ==
    /\ RunAtRest
    /\ output = <<>>
    /\ \E envMax \in SizerEnvValues, allPositions \in SizerPositions,
          buyingPower \in SizerBuyingPowers, fetched \in BOOLEAN, accountFetched \in BOOLEAN :
        input = [method |-> "calculateInvestmentSize", envMax |-> envMax,
                 maxActiveOptions |-> NewTwoPercentDown(envMax),
                 fetched |-> fetched, allPositions |-> allPositions,
                 accountFetched |-> accountFetched, buyingPower |-> buyingPower]

CallCalculateInvestmentSize ==
    /\ input.method = "calculateInvestmentSize"
    /\ Len(output) < MaxCalls
    /\ output' = Append(output,
            calculateInvestmentSize(input.maxActiveOptions, input.fetched, input.allPositions,
                                    input.accountFetched, input.buyingPower))
    /\ UNCHANGED input
    /\ StaysAtRest

SizerNext == CallCalculateInvestmentSize

SizerSpec == SizerInit /\ [][SizerNext]_vars

SizerCalled == input.method = "calculateInvestmentSize" /\ output # <<>>
\* openCount: the options on the underlying among the account's positions
SizerOpenCount == Len(FilterOptionPositions(input.allPositions, ticker))

\* C14: when the positions are read, maxPositions - openCount > 0 and the
\* account is read, the sizer returns budget = buyingPower / (maxPositions -
\* openCount); when maxPositions - openCount <= 0 it fails with "no remaining
\* active option spots available", returns no budget and does not read the
\* buying power.  maxPositions 5, openCount 5 fails; maxPositions 5,
\* openCount 3, buyingPower 1000.00 gives 500.00.
C14_BudgetPerRemainingSpot ==
    (SizerCalled /\ input.fetched) =>
        \A i \in DOMAIN output :
            /\ (input.maxActiveOptions - SizerOpenCount > 0 /\ input.accountFetched) =>
                /\ output[i].err = "nil"
                /\ output[i].investmentSize.num = input.buyingPower
                /\ output[i].investmentSize.den = input.maxActiveOptions - SizerOpenCount
            /\ input.maxActiveOptions - SizerOpenCount <= 0 =>
                /\ output[i].err = "no remaining active option spots available"
                /\ output[i].investmentSize = NoInvestment
                /\ output[i].sdk = <<"GetPositions">>
            /\ (input.maxActiveOptions = 5 /\ SizerOpenCount = 5) => output[i].err # "nil"
            /\ (/\ input.maxActiveOptions = 5
                /\ SizerOpenCount = 3
                /\ input.buyingPower = 100000
                /\ input.accountFetched) =>
                    output[i].investmentSize.num = 50000 * output[i].investmentSize.den

\* five spots, three taken, 1000.00 to spend: 500.00 per spot
C14_Witness ==
    /\ SizerCalled
    /\ input.maxActiveOptions = 5
    /\ SizerOpenCount = 3
    /\ input.buyingPower = 100000
    /\ output[1].err = "nil"
    /\ output[1].investmentSize = [num |-> 100000, den |-> 2]

\* C15: the sizer fails, returning no budget, whenever the buying power is
\* negative or the configured maxPositions is <= 0.
C15_SizerRejectsInvalidInput ==
    (/\ SizerCalled
     /\ input.fetched
     /\ input.accountFetched
     /\ \/ input.buyingPower < 0
        \/ Atoi(input.envMax).ok /\ Atoi(input.envMax).value <= 0) =>
        \A i \in DOMAIN output :
            /\ output[i].err # "nil"
            /\ output[i].investmentSize = NoInvestment

\* a negative buying power came back as a negative budget, without error
C15_Witness ==
    /\ SizerCalled
    /\ input.buyingPower < 0
    /\ output[1].err = "nil"
    /\ output[1].investmentSize.num < 0
    /\ output[1].investmentSize.den > 0

(***************************************************************************)
(* PlaceOptionLimitOrderWithTakeProfit for budgets, quotes and take-profit *)
(* percentages of every sign.  sdk holds the requests handed to            *)
(* tradingClient.PlaceOrder, which the broker accepts or not.              *)
(***************************************************************************)
PlaceOrderRequest(contract, planned) ==
    [symbol |-> contract, quantity |-> planned.quantity,
     limitPrice |-> planned.limitPrice, takeProfitPrice |-> planned.takeProfitPrice]

\* PlaceOutcome with the request sent before the arguments are looked at
PlaceOutcomeSubmitsFirst(planned, contract, accepted) ==
    IF ~accepted \/ planned.err # "nil"
    THEN [err |-> IF planned.err # "nil" THEN planned.err ELSE "failed to place bracket order",
          order |-> NoOrder, sdk |-> <<PlaceOrderRequest(contract, planned.plan)>>]
    ELSE [err |-> "nil",
          order |-> [id |-> "order-1", symbol |-> contract, quantity |-> planned.plan.quantity,
                     limitPrice |-> planned.plan.limitPrice,
                     takeProfitPrice |-> planned.plan.takeProfitPrice],
          sdk |-> <<PlaceOrderRequest(contract, planned.plan)>>]

\* what the method returns for a plan or a planning error
PlaceOutcome(planned, contract, accepted) ==
    IF planned.err # "nil"
    THEN [err |-> planned.err, order |-> NoOrder, sdk |-> <<>>]
    ELSE IF ~accepted
    THEN [err |-> "failed to place bracket order", order |-> NoOrder,
          sdk |-> <<PlaceOrderRequest(contract, planned.plan)>>]
    ELSE [err |-> "nil",
          order |-> [id |-> "order-1", symbol |-> contract, quantity |-> planned.plan.quantity,
                     limitPrice |-> planned.plan.limitPrice,
                     takeProfitPrice |-> planned.plan.takeProfitPrice],
          sdk |-> <<PlaceOrderRequest(contract, planned.plan)>>]

PlaceOptionLimitOrderWithTakeProfit(size, symbol, quote, percentage, accepted) ==
    PlaceOutcome(PlanOrder(size, symbol, quote, percentage), symbol, accepted)

\* budgets in cents: 110.00 is the price of one contract at 1.10, 770.00 of seven
PlannerSizes ==
    {[num |-> n, den |-> 1] : n \in {0 - 50000, 0, 11000, 77000, 50000, 200000}}
        \cup {[num |-> 100000, den |-> 3]}
PlannerSymbols == {NoSymbol, SymA}
PlannerBids == {0 - 5, 0, 1}
PlannerAsks == {0 - 5, 0, 1, 59, 110, 1234, 1700}
PlannerQuotes == {NoQuote} \cup {Quote(bid, ask) : bid \in PlannerBids, ask \in PlannerAsks}
PlannerProfits == {0 - 10, 0, 50}

PlannerInit ==
    /\ RunAtRest
    /\ output = <<>>
    /\ \E size \in PlannerSizes, symbol \in PlannerSymbols,
          quote \in PlannerQuotes, profit \in PlannerProfits :
        input = [method |-> "PlaceOptionLimitOrderWithTakeProfit", investmentSize |-> size,
                 optionSymbol |-> symbol, optionQuote |-> quote, takeProfitPercentage |-> profit]

CallPlaceOptionLimitOrderWithTakeProfit ==
    /\ input.method = "PlaceOptionLimitOrderWithTakeProfit"
    /\ Len(output) < MaxCalls
    /\ \E accepted \in BOOLEAN :
        output' = Append(output,
            PlaceOptionLimitOrderWithTakeProfit(input.investmentSize, input.optionSymbol,
                input.optionQuote, input.takeProfitPercentage, accepted))
    /\ UNCHANGED input
    /\ StaysAtRest

PlannerNext == CallPlaceOptionLimitOrderWithTakeProfit

PlannerSpec == PlannerInit /\ [][PlannerNext]_vars

PlannerCalled == input.method = "PlaceOptionLimitOrderWithTakeProfit" /\ output # <<>>

InvalidInputErrors ==
    {"option symbol cannot be empty", "option quote cannot be nil",
     "investment size must be greater than 0",
     "take profit percentage must be greater than 0", "invalid bid/ask prices"}

\* C16: PlaceOptionLimitOrderWithTakeProfit fails with an invalid-input error
\* and hands nothing to the broker whenever the budget is <= 0, the
\* take-profit percentage is <= 0, the bid or the ask is <= 0, the symbol is
\* empty or the quote is absent.
C16_InvalidPlanInputsSubmitNothing ==
    (/\ PlannerCalled
     /\ \/ input.investmentSize.num <= 0
        \/ input.takeProfitPercentage <= 0
        \/ input.optionQuote.bid <= 0
        \/ input.optionQuote.ask <= 0
        \/ input.optionSymbol = NoSymbol
        \/ ~input.optionQuote.present) =>
        \A i \in DOMAIN output :
            /\ output[i].err \in InvalidInputErrors
            /\ output[i].order = NoOrder
            /\ output[i].sdk = <<>>

\* a bid of zero under a good ask, budget and percentage: refused, nothing sent
C16_Witness ==
    /\ PlannerCalled
    /\ input.investmentSize = [num |-> 200000, den |-> 1]
    /\ input.optionSymbol = SymA
    /\ input.optionQuote = Quote(0, 1234)
    /\ input.takeProfitPercentage = 50
    /\ Len(output) = MaxCalls
    /\ \A i \in DOMAIN output : output[i].err = "invalid bid/ask prices" /\ output[i].sdk = <<>>

Submitted == {i \in DOMAIN output : output[i].sdk # <<>>}

\* floor(budget / (ask * 100)) for a budget of num/den cents and an ask in cents
WholeContracts(size, ask) == size.num \div (size.den * ask * 100)

\* C17: every order handed to the broker has quantity = floor(budget /
\* (ask * 100)), never rounded up, so that quantity * ask * 100 <= budget;
\* a budget of 500 at an ask of 12.34 is refused for a quantity of 0, and
\* a budget of 2000 gives a quantity of 1.
C17_QuantityIsTheFloor ==
    PlannerCalled =>
        /\ \A i \in Submitted :
            /\ output[i].sdk[1].quantity = WholeContracts(input.investmentSize, input.optionQuote.ask)
            /\ output[i].sdk[1].quantity * input.optionQuote.ask * 100 * input.investmentSize.den
                    <= input.investmentSize.num
        /\ (/\ input.optionQuote.ask = 1234
            /\ input.optionQuote.bid > 0
            /\ input.optionSymbol # NoSymbol
            /\ input.takeProfitPercentage > 0) =>
                /\ input.investmentSize = [num |-> 50000, den |-> 1] =>
                       \A i \in DOMAIN output : output[i].err = QuantityError /\ output[i].sdk = <<>>
                /\ input.investmentSize = [num |-> 200000, den |-> 1] =>
                       \A i \in DOMAIN output : output[i].sdk[1].quantity = 1

\* 770.00 buys seven contracts at an ask of 1.10; six were ordered
C17_Witness ==
    /\ PlannerCalled
    /\ input.investmentSize = [num |-> 77000, den |-> 1]
    /\ input.optionQuote = Quote(1, 110)
    /\ WholeContracts(input.investmentSize, input.optionQuote.ask) = 7
    /\ output[1].sdk # <<>>
    /\ output[1].sdk[1].quantity = 6

\* floor(ask * 0.99 * 100) and floor(limit * (1 + pct/100) * 100), in cents
WholeCentsLimit(ask) == (ask * 99) \div 100
WholeCentsTakeProfit(limit, pct) == (limit * (100 + pct)) \div 100

\* C18: every order handed to the broker has limitPrice = floor(ask * 0.99 *
\* 100) / 100 and takeProfitPrice = floor(limitPrice * (1 + pct/100) * 100)
\* / 100, both cut to whole cents, the take-profit price computed from the
\* limit price already cut; an ask of 12.34 with 50 percent gives 12.21 and
\* 18.31.
C18_PricesAreTruncatedToCents ==
    PlannerCalled =>
        \A i \in Submitted :
            /\ output[i].sdk[1].limitPrice = WholeCentsLimit(input.optionQuote.ask)
            /\ output[i].sdk[1].takeProfitPrice =
                   WholeCentsTakeProfit(output[i].sdk[1].limitPrice, input.takeProfitPercentage)
            /\ (input.optionQuote.ask = 1234 /\ input.takeProfitPercentage = 50) =>
                   /\ output[i].sdk[1].limitPrice = 1221
                   /\ output[i].sdk[1].takeProfitPrice = 1831

\* 99 percent of an ask of 17.00 is 16.83; the order went out at 16.82
C18_Witness ==
    /\ PlannerCalled
    /\ input.optionQuote = Quote(1, 1700)
    /\ input.takeProfitPercentage = 50
    /\ WholeCentsLimit(input.optionQuote.ask) = 1683
    /\ output[1].sdk # <<>>
    /\ output[1].sdk[1].limitPrice = 1682
    /\ output[1].sdk[1].takeProfitPrice = 2523

(***************************************************************************)
(* ParseOptionTicker on symbols put together from an underlying, six       *)
(* characters of date, a type marker and eight characters of strike, each  *)
(* well-formed or not, and on symbols shorter than eight characters.       *)
(***************************************************************************)
ParserUnderlyings == {<<>>, ticker}
ParserDates ==
    {<<"2", "7", "0", "1", "1", "5">>,
     <<"2", "6", "1", "3", "1", "8">>,
     <<"2", "6", "0", "2", "3", "0">>,
     <<"2", "4", "0", "2", "2", "9">>,
     <<"2", "5", "0", "2", "2", "9">>,
     <<"2", "6", "0", "6", "3", "1">>,
     <<"2", "a", "0", "1", "1", "5">>,
     <<"2", "6", "0", "1", "0", "0">>,
     <<"7", "0", "1", "1", "5">>,
     <<>>}
ParserTypes == {<<"C">>, <<"P">>, <<"c">>, <<"p">>, <<"X">>, <<"2">>, <<>>}
ParserStrikes ==
    {<<"0", "0", "4", "1", "0", "0", "0", "0">>,
     <<"+", "0", "4", "2", "0", "0", "0", "0">>,
     <<"-", "0", "4", "2", "0", "0", "0", "0">>,
     <<"0", "4", "2", "0", ".", "0", "0", "0">>,
     <<"0", "0", "4", "2", "0", "0", "e", "1">>,
     <<"0", "0", "4", "2", "e", "-", "0", "1">>,
     <<"1", "_", "0", "0", "0", "0", "0", "0">>,
     <<"0", "x", "1", ".", "8", "p", "+", "1">>,
     <<"I", "n", "f", "i", "n", "i", "t", "y">>,
     <<"0", "0", "0", "0", "0", "0", "0", ".">>,
     <<"0", "0", "4", "2", "0", "0", "0", "A">>,
     <<"1", "e", "9", "9", "9", "9", "9", "9">>,
     <<"0", "0", "C", "4", "2", "0", "0", "0">>}
ParserShortSymbols == {<<>>, <<"C">>, ticker, <<"0", "0", "4", "2", "0", "0", "0">>}
ParserSymbols ==
    {u \o d \o t \o k : u \in ParserUnderlyings, d \in ParserDates,
                          t \in ParserTypes, k \in ParserStrikes}
        \cup ParserShortSymbols

ParserInit ==
    /\ RunAtRest
    /\ output = <<>>
    /\ \E symbol \in ParserSymbols : input = [method |-> "ParseOptionTicker", symbol |-> symbol]

CallParseOptionTicker ==
    /\ input.method = "ParseOptionTicker"
    /\ Len(output) < MaxCalls
    /\ output' = Append(output, ParseOptionTicker(input.symbol))
    /\ UNCHANGED input
    /\ StaysAtRest

ParserNext == CallParseOptionTicker

ParserSpec == ParserInit /\ [][ParserNext]_vars

ParserCalled == input.method = "ParseOptionTicker" /\ output # <<>>

\* C19: ParseOptionTicker fails for every symbol whose last eight characters
\* are not eight digits 0-9, whatever else they are: a sign, a decimal
\* point, an exponent or any other character among them.
C19_NonDigitStrikeIsRejected ==
    (/\ ParserCalled
     /\ Len(input.symbol) >= 8
     /\ \E i \in (Len(input.symbol) - 7)..Len(input.symbol) : input.symbol[i] \notin Digits) =>
        \A i \in DOMAIN output : ~output[i].ok

\* a strike written with a sign was parsed as a call of January 2027
C19_Witness ==
    /\ ParserCalled
    /\ input.symbol = ticker \o Jan2027 \o <<"C">> \o <<"+", "0", "4", "2", "0", "0", "0", "0">>
    /\ output[1].ok
    /\ output[1].Type = "C"
    /\ output[1].Expiry = 20270115
    /\ output[1].StrikeKind = "numeral"

\* the calendar of the years 2000 to 2099: whether yy, mm, dd is a day of it
DaysOfMonth(yy, mm) ==
    CASE mm \in {1, 3, 5, 7, 8, 10, 12} -> 31
      [] mm \in {4, 6, 9, 11} -> 30
      [] mm = 2 -> (IF yy % 4 = 0 THEN 29 ELSE 28)
      [] OTHER -> 0

IsCalendarDate(yymmdd) ==
    /\ \A i \in 1..6 : yymmdd[i] \in Digits
    /\ 10 * DigitVal(yymmdd[5]) + DigitVal(yymmdd[6]) >= 1
    /\ 10 * DigitVal(yymmdd[5]) + DigitVal(yymmdd[6])
           <= DaysOfMonth(10 * DigitVal(yymmdd[1]) + DigitVal(yymmdd[2]),
                          10 * DigitVal(yymmdd[3]) + DigitVal(yymmdd[4]))

\* the symbol's type marker, and the six characters before it
HasTypeMarker(symbol) == Len(symbol) >= 9 /\ symbol[Len(symbol) - 8] \in {"C", "P"}
HasDate(symbol) ==
    Len(symbol) >= 15 /\ IsCalendarDate(SubSeq(symbol, Len(symbol) - 14, Len(symbol) - 9))

\* C20: ParseOptionTicker fails and returns no option when the symbol is
\* shorter than 8 characters, when the character just before the last 8 is
\* not exactly C or P (c and p are rejected), and when the 6 characters before
\* that marker are missing or are not a calendar date YYMMDD of the year
\* 2000 + YY (month 13 and the 30th of February are none).
C20_MalformedSymbolIsRejected ==
    (ParserCalled /\ (Len(input.symbol) < 8 \/ ~HasTypeMarker(input.symbol) \/ ~HasDate(input.symbol))) =>
        \A i \in DOMAIN output : output[i] = ParseFailed

\* the 30th of February 2026 before a well-formed call marker and strike
C20_Witness ==
    /\ ParserCalled
    /\ input.symbol = ticker \o <<"2", "6", "0", "2", "3", "0">> \o <<"C">> \o Strike410
    /\ HasTypeMarker(input.symbol)
    /\ ~HasDate(input.symbol)
    /\ Len(output) = MaxCalls
    /\ output[1] = ParseFailed

\* the parts of a symbol, counted from its end
StrikeChars(symbol) == SubSeq(symbol, Len(symbol) - 7, Len(symbol))
TypeChar(symbol) == symbol[Len(symbol) - 8]
DateChars(symbol) == SubSeq(symbol, Len(symbol) - 14, Len(symbol) - 9)
UnderlyingChars(symbol) == SubSeq(symbol, 1, Len(symbol) - 15)

\* eight digits read as an integer, and six as the date 20YY-MM-DD
EightDigits(k) ==
    10000000 * DigitVal(k[1]) + 1000000 * DigitVal(k[2]) + 100000 * DigitVal(k[3])
        + 10000 * DigitVal(k[4]) + 1000 * DigitVal(k[5]) + 100 * DigitVal(k[6])
        + 10 * DigitVal(k[7]) + DigitVal(k[8])
SixDigits(d) ==
    20000000 + 100000 * DigitVal(d[1]) + 10000 * DigitVal(d[2]) + 1000 * DigitVal(d[3])
        + 100 * DigitVal(d[4]) + 10 * DigitVal(d[5]) + DigitVal(d[6])

\* C21: for every symbol ParseOptionTicker accepts, the strike is the last 8
\* digits read as an integer, over 1000; the type is the character before
\* them; the expiry is the date 20YY-MM-DD of the 6 characters before the
\* type; the underlying is everything before the date; the ticker field is
\* the symbol itself; and the same symbol gives the same result on every call.
C21_ParsedFieldsAreTheSymbolsParts ==
    ParserCalled =>
        \A i \in DOMAIN output :
            output[i].ok =>
                /\ \A j \in 1..8 : StrikeChars(input.symbol)[j] \in Digits
                /\ output[i].StrikeKind = "integer"
                /\ output[i].StrikeMilli = EightDigits(StrikeChars(input.symbol))
                /\ output[i].Type = TypeChar(input.symbol)
                /\ output[i].Expiry = SixDigits(DateChars(input.symbol))
                /\ output[i].Underlying = UnderlyingChars(input.symbol)
                /\ output[i].Ticker = input.symbol
                /\ output[i] = output[1]

\* the symbol was accepted with a decimal point in its last 8 characters: the
\* strike is 0.42, not an integer of 8 digits over 1000
C21_Witness ==
    /\ ParserCalled
    /\ input.symbol = ticker \o Jan2027 \o <<"P">> \o <<"0", "4", "2", "0", ".", "0", "0", "0">>
    /\ output[1].ok
    /\ output[1].StrikeKind = "numeral"
    /\ output[1].Type = "P"
    /\ output[1].Underlying = ticker

(***************************************************************************)
(* ParseOptionTicker on the symbols the encoding rule writes: underlying,  *)
(* YYMMDD, C or P, and the strike in thousandths padded to 8 digits.       *)
(***************************************************************************)
DigitChar(n) == <<"0", "1", "2", "3", "4", "5", "6", "7", "8", "9">>[n + 1]

TwoDigits(n) == <<DigitChar(n \div 10), DigitChar(n % 10)>>

PaddedStrike(milli) ==
    <<DigitChar(milli \div 10000000), DigitChar((milli \div 1000000) % 10),
      DigitChar((milli \div 100000) % 10), DigitChar((milli \div 10000) % 10),
      DigitChar((milli \div 1000) % 10), DigitChar((milli \div 100) % 10),
      DigitChar((milli \div 10) % 10), DigitChar(milli % 10)>>

EncodeOption(underlying, date, type, milli) ==
    underlying \o TwoDigits((date \div 10000) % 100) \o TwoDigits((date \div 100) % 100)
        \o TwoDigits(date % 100) \o <<type>> \o PaddedStrike(milli)

\* strike := strikeFloat / 1000, as a float64
StrikeOf(parsedOption) == FloatDivInt(FloatOf(parsedOption.StrikeMilli), 1000)

CodecUnderlyings ==
    {<<>>, ticker, <<"A", "1">>, <<"B", "R", "K", " ", "B">>, <<"X", "2", "7", "0", "1", "1", "5", "C">>}
CodecDates == {20000101, 20000229, 20240229, 20260618, 20270115, 20991231}
CodecTypes == {"C", "P"}
CodecStrikes == {0, 1, 290, 410000, 1234567, 99999999}

CodecInit ==
    /\ RunAtRest
    /\ output = <<>>
    /\ \E underlying \in CodecUnderlyings, date \in CodecDates,
          type \in CodecTypes, milli \in CodecStrikes :
        input = [method |-> "ParseOptionTicker",
                 symbol |-> EncodeOption(underlying, date, type, milli),
                 underlying |-> underlying, expiry |-> date, type |-> type, milli |-> milli]

CodecSpec == CodecInit /\ [][ParserNext]_vars

\* whether the float64 x is a nearest one to milli / 1000
IsNearestToThousandth(x, milli) ==
    IF milli = 0 THEN x = FloatZero
    ELSE /\ x.e <= 0
         /\ ~BigLess(BigFromInt(1000),
                     BigMulInt(IF BigLess(BigMulInt(x.m, 1000), BigShl(BigFromInt(milli), 0 - x.e))
                               THEN BigSub(BigShl(BigFromInt(milli), 0 - x.e), BigMulInt(x.m, 1000))
                               ELSE BigSub(BigMulInt(x.m, 1000), BigShl(BigFromInt(milli), 0 - x.e)),
                               2))

\* C22: for every underlying, every date of 2000-2099, either type and every
\* strike that is a whole number of thousandths below 100000, parsing the
\* encoded symbol succeeds and gives back the underlying, the expiry, the
\* type and the strike.
C22_EncodedSymbolRoundTrips ==
    (ParserCalled /\ "milli" \in DOMAIN input) =>
        \A i \in DOMAIN output :
            /\ output[i].ok
            /\ output[i].Underlying = input.underlying
            /\ output[i].Expiry = input.expiry
            /\ output[i].Type = input.type
            /\ output[i].StrikeKind = "integer"
            /\ output[i].StrikeMilli = input.milli
            /\ IsNearestToThousandth(StrikeOf(output[i]), input.milli)

\* an underlying that itself ends like a dated call, 29 February 2024, 1234.567
C22_Witness ==
    /\ ParserCalled
    /\ "milli" \in DOMAIN input
    /\ input.underlying = <<"X", "2", "7", "0", "1", "1", "5", "C">>
    /\ input.expiry = 20240229
    /\ input.type = "P"
    /\ input.milli = 1234567
    /\ Len(output) = MaxCalls
    /\ output[1].Underlying = input.underlying
    /\ output[1].StrikeMilli = 1234567

(***************************************************************************)
(* The strategy from its construction on: NewTwoPercentDown reads          *)
(* MAX_ACTIVE_OPTIONS (input.envMax) once, and the runs follow on an       *)
(* account without positions and a notifier without webhooks.              *)
(***************************************************************************)
ConfigEnvValues ==
    {<<>>, <<"0">>, <<"-", "1">>, <<"x">>, <<"2", "x">>, <<"1">>, <<"2">>, <<"+", "2">>}

ConfigInit ==
    /\ output = <<>>
    /\ \E envMax \in ConfigEnvValues : input = [method |-> "NewTwoPercentDown", envMax |-> envMax]
    /\ maxActiveOptions = 0
    /\ noisyWebhookURL = FALSE
    /\ normalWebhookURL = FALSE
    /\ positions = <<>>
    /\ pendingOrders = <<>>
    /\ lateFill = FALSE
    /\ pc = "New"
    /\ yesterdayClose = 0
    /\ currentPrice = 0
    /\ openOptions = <<>>
    /\ optionSymbol = NoSymbol
    /\ optionSnapshot = NoSnapshot
    /\ sizingOpenOptions = <<>>
    /\ investmentSize = NoInvestment
    /\ plan = NoPlan
    /\ order = NoOrder
    /\ calls = <<>>
    /\ notifications = <<>>
    /\ result = "none"
    /\ outcome = "none"
    /\ failure = "nil"

CallNewTwoPercentDown ==
    /\ pc = "New"
    /\ input.method = "NewTwoPercentDown"
    /\ maxActiveOptions' = NewTwoPercentDown(input.envMax)
    /\ pc' = "Idle"
    /\ UNCHANGED <<callVars, noisyWebhookURL, normalWebhookURL, brokerVars, lateFill, localVars,
                   calls, notifications, result, outcome, failure>>

ConfigNext == CallNewTwoPercentDown \/ Next

ConfigSpec == ConfigInit /\ [][ConfigNext]_vars

Constructed == input.method = "NewTwoPercentDown" /\ pc # "New"

\* C23: once NewTwoPercentDown has returned, maxActiveOptions is a positive
\* integer, the value of MAX_ACTIVE_OPTIONS when that is an integer > 0 and 5
\* when it is unset or empty, not an integer, zero or negative; and it keeps
\* that value through every run.
C23_MaxActiveOptionsIsPositive ==
    Constructed =>
        /\ maxActiveOptions \in Nat \ {0}
        /\ input.envMax = <<"1">> => maxActiveOptions = 1
        /\ input.envMax \in {<<"2">>, <<"+", "2">>} => maxActiveOptions = 2
        /\ input.envMax \in {<<>>, <<"0">>, <<"-", "1">>, <<"x">>, <<"2", "x">>} => maxActiveOptions = 5

\* MAX_ACTIVE_OPTIONS=-1: a run has placed an order under the default cap of 5
C23_Witness ==
    /\ Constructed
    /\ input.envMax = <<"-", "1">>
    /\ maxActiveOptions = 5
    /\ pc = "Done"
    /\ outcome = "Completed"

(***************************************************************************)
(* The six methods of notification.Client called on their own, on a client *)
(* with each webhook URL set or unset.                                     *)
(***************************************************************************)
NotifierInit ==
    /\ input = [method |-> "notification.Client"]
    /\ output = <<>>
    /\ maxActiveOptions = DefaultMaxActiveOptions
    /\ noisyWebhookURL \in BOOLEAN
    /\ normalWebhookURL \in BOOLEAN
    /\ positions = <<>>
    /\ pendingOrders = <<>>
    /\ lateFill = FALSE
    /\ pc = "Idle"
    /\ yesterdayClose = 0
    /\ currentPrice = 0
    /\ openOptions = <<>>
    /\ optionSymbol = NoSymbol
    /\ optionSnapshot = NoSnapshot
    /\ sizingOpenOptions = <<>>
    /\ investmentSize = NoInvestment
    /\ plan = NoPlan
    /\ order = NoOrder
    /\ calls = <<>>
    /\ notifications = <<>>
    /\ result = "none"
    /\ outcome = "none"
    /\ failure = "nil"

CallNotifier ==
    /\ input.method = "notification.Client"
    /\ Len(notifications) < MaxCalls
    /\ \E method \in NotifierMethods : Notified(method, "")
    /\ UNCHANGED <<callVars, configVars, brokerVars, lateFill, localVars, pc, calls, outcome, failure>>

NotifierNext == CallNotifier

NotifierSpec == NotifierInit /\ [][NotifierNext]_vars

Posted(notification) == notification.delivery # "not sent"

\* C24: NoGapDown and MarketClosed post only to the noisy webhook; OrderPlaced,
\* Failure, ActionNeeded and MaxActiveOptions (skipping) post only to the
\* normal webhook; a method whose webhook URL is unset posts nothing.
C24_NotificationsAreRouted ==
    input.method = "notification.Client" =>
        \A i \in DOMAIN notifications :
            /\ notifications[i].method \in {"NoGapDown", "MarketClosed"} =>
                /\ notifications[i].webhook = "noisy"
                /\ Posted(notifications[i]) = noisyWebhookURL
            /\ notifications[i].method \in {"OrderPlaced", "Failure", "ActionNeeded", "MaxActiveOptions"} =>
                /\ notifications[i].webhook = "normal"
                /\ Posted(notifications[i]) = normalWebhookURL

\* only the normal webhook is set: MarketClosed posted nothing, Failure posted
C24_Witness ==
    /\ input.method = "notification.Client"
    /\ ~noisyWebhookURL
    /\ normalWebhookURL
    /\ Len(notifications) = 2
    /\ notifications[1].method = "MarketClosed"
    /\ ~Posted(notifications[1])
    /\ notifications[2].method = "Failure"
    /\ notifications[2].webhook = "normal"
    /\ notifications[2].delivery = "delivered"

\* the entries the selection is to skip, and the chain without them
SkippedEntries(optionChain) ==
    {s \in DOMAIN optionChain : ~optionChain[s].greeks \/ ~SelectorParsed[s].ok}

WithoutSkipped(optionChain) ==
    [s \in DOMAIN optionChain \ SkippedEntries(optionChain) |-> optionChain[s]]

\* what a call came to: a contract, or no matching contract, or another error
SelectionOf(got) ==
    IF got.err = "nil" THEN [kind |-> "selected", symbol |-> got.symbol, snapshot |-> got.snapshot]
    ELSE IF got.err \in NoMatchErrors
    THEN [kind |-> "no matching contract", symbol |-> NoSymbol, snapshot |-> NoSnapshot]
    ELSE [kind |-> got.err, symbol |-> NoSymbol, snapshot |-> NoSnapshot]

Selections(optionChain, minDelta) ==
    {SelectionOf(got) : got \in GetCallLeapsByDelta(TRUE, optionChain, ticker, minDelta)}

\* C25: an entry without greeks and an entry whose symbol does not parse are
\* skipped and never returned, the call does not fail for them, and what it
\* returns is what it returns for the chain without those entries (it fails
\* only when no candidate is left).
C25_SkippedEntriesDoNotCount ==
    (SelectorCalled /\ input.fetched /\ input.minDelta > 0) =>
        \A i \in DOMAIN output :
            /\ output[i].symbol \notin SkippedEntries(input.optionChain)
            /\ SelectionOf(output[i]) \in Selections(WithoutSkipped(input.optionChain), input.minDelta)
            /\ output[i].err # "nil" =>
                   \A s \in DOMAIN input.optionChain \ SkippedEntries(input.optionChain) :
                       input.optionChain[s].delta < input.minDelta

\* a malformed symbol and an entry without greeks, both above minDelta, beside
\* one good entry: the good one was returned
C25_Witness ==
    /\ SelectorCalled
    /\ input.fetched
    /\ input.minDelta = 60
    /\ DOMAIN input.optionChain = {SymBad, SymA, SymB}
    /\ input.optionChain[SymBad] = Snapshot(TRUE, 62, Quote(1200, 1234))
    /\ input.optionChain[SymA] = Snapshot(FALSE, 70, NoQuote)
    /\ input.optionChain[SymB] = Snapshot(TRUE, 65, Quote(1500, 1550))
    /\ output[1].err = "nil"
    /\ output[1].symbol = SymB

\* C26: every order handed to the broker has quantity >= 1, a limit price
\* > 0 and a take-profit price above the limit price, whatever the quote with
\* bid > 0 and ask > 0 (asks of a few cents included) and the percentage > 0.
C26_SubmittedOrderIsWellFormed ==
    PlannerCalled =>
        \A i \in Submitted :
            /\ output[i].sdk[1].quantity >= 1
            /\ output[i].sdk[1].limitPrice > 0
            /\ output[i].sdk[1].takeProfitPrice > output[i].sdk[1].limitPrice

\* an ask of one cent: 50000 contracts ordered at a limit price of 0.00
C26_Witness ==
    /\ PlannerCalled
    /\ input.investmentSize = [num |-> 50000, den |-> 1]
    /\ input.optionQuote = Quote(1, 1)
    /\ input.takeProfitPercentage = 50
    /\ output[1].sdk # <<>>
    /\ output[1].sdk[1].quantity >= 1
    /\ output[1].sdk[1].limitPrice = 0
    /\ output[1].sdk[1].takeProfitPrice = 0

\* C27: the positions are read twice within a run; once the capacity check
\* has passed, the sizing never fails for lack of remaining spots and divides
\* the buying power by maxActiveOptions minus the count the capacity check
\* saw, even when the account changes between the two reads.
C27_SizingUsesTheCapacityCount ==
    /\ failure # "no remaining active option spots available"
    /\ investmentSize # NoInvestment =>
          \E buyingPower \in BuyingPowers :
              investmentSize = InvestmentSize(buyingPower,
                                  RemainingSpots(maxActiveOptions, Len(openOptions)))

\* an order of an earlier run is filled between the two reads: the capacity
\* check saw one spot left, the sizing sees none and fails the run
C27_Witness ==
    /\ pc = "Done"
    /\ lateFill
    /\ ~CapacityReached(Len(openOptions), maxActiveOptions)
    /\ Len(sizingOpenOptions) = Len(openOptions) + 1
    /\ RemainingSpots(maxActiveOptions, Len(sizingOpenOptions)) = 0
    /\ failure = "no remaining active option spots available"
    /\ result = "err"
    /\ order = NoOrder

(***************************************************************************)
(* engine.Engine.Run: the market gate in front of the strategies.  The     *)
(* engine sees a strategy only through its Run, so a strategy is what its  *)
(* Run returns and whether it submits an order on the way; the market is   *)
(* what GetClock answers.                                                  *)
(***************************************************************************)
MaxStrategies == 3

\* alpaca.Client.IsMarketOpen: clock is "open", "closed", or "failed" when
\* tradingClient.GetClock returns an error
IsMarketOpen(clock) ==
    [isOpen |-> clock = "open",
     err |-> IF clock = "failed" THEN "failed to get market clock" ELSE "nil"]

\* EngineGate without the check on isOpen
EngineGateIgnoresClosed(market) ==
    IF market.err # "nil" THEN "fail" ELSE "run"

\* the two early returns of Engine.Run
EngineGate(market) ==
    IF market.err # "nil" THEN "fail"
    ELSE IF ~market.isOpen THEN "closed"
    ELSE "run"

EngineClocks == {"open", "closed", "failed"}

StrategyRuns ==
    {[err |-> "nil", submits |-> FALSE],
     [err |-> "nil", submits |-> TRUE],
     [err |-> "strategy A failed", submits |-> FALSE],
     [err |-> "strategy B failed", submits |-> TRUE]}

EngineStrategies == UNION {[1..n -> StrategyRuns] : n \in 0..MaxStrategies}

\* NewEngine(strategies, broker, notifier)
EngineInit ==
    /\ \E strategies \in EngineStrategies, clock \in EngineClocks :
          input = [method |-> "Engine.Run", strategies |-> strategies, clock |-> clock]
    /\ output = <<>>
    /\ maxActiveOptions = DefaultMaxActiveOptions
    /\ noisyWebhookURL \in BOOLEAN
    /\ normalWebhookURL \in BOOLEAN
    /\ positions = <<>>
    /\ pendingOrders = <<>>
    /\ lateFill = FALSE
    /\ pc = "Idle"
    /\ yesterdayClose = 0
    /\ currentPrice = 0
    /\ openOptions = <<>>
    /\ optionSymbol = NoSymbol
    /\ optionSnapshot = NoSnapshot
    /\ sizingOpenOptions = <<>>
    /\ investmentSize = NoInvestment
    /\ plan = NoPlan
    /\ order = NoOrder
    /\ calls = <<>>
    /\ notifications = <<>>
    /\ result = "none"
    /\ outcome = "none"
    /\ failure = "nil"

\* isOpen, err := e.broker.IsMarketOpen(ctx) and the two early returns
EngineCheckMarket ==
    /\ input.method = "Engine.Run"
    /\ pc = "Idle"
    /\ \E market \in {IsMarketOpen(input.clock)} :
        /\ calls' = Append(calls, Call("IsMarketOpen", market.err = "nil", <<"GetClock">>))
        /\ CASE EngineGate(market) = "fail" ->
                    FailWith("failed to check if market is open")
             [] EngineGate(market) = "closed" ->
                    /\ Notified("MarketClosed", "")
                    /\ pc' = "Done"
                    /\ outcome' = "MarketClosed"
                    /\ UNCHANGED failure
             [] EngineGate(market) = "run" ->
                    /\ pc' = "RunningStrategies"
                    /\ UNCHANGED <<notifications, result, outcome, failure>>
    /\ UNCHANGED <<callVars, configVars, brokerVars, lateFill, localVars>>

\* one turn of the loop: strategy.Run(ctx), and the return of its error
EngineRunStrategy ==
    /\ input.method = "Engine.Run"
    /\ pc = "RunningStrategies"
    /\ Len(output) < Len(input.strategies)
    /\ \E strategy \in {input.strategies[Len(output) + 1]} :
        /\ output' = Append(output, strategy)
        /\ pendingOrders' = IF strategy.submits THEN Append(pendingOrders, SymA) ELSE pendingOrders
        /\ IF strategy.err # "nil"
           THEN /\ result' = "err"
                /\ failure' = strategy.err
                /\ outcome' = "Failed"
                /\ pc' = "Done"
           ELSE UNCHANGED <<pc, result, outcome, failure>>
    /\ UNCHANGED <<input, configVars, positions, lateFill, localVars, calls, notifications>>

\* the loop is over: return nil
EngineReturn ==
    /\ input.method = "Engine.Run"
    /\ pc = "RunningStrategies"
    /\ Len(output) = Len(input.strategies)
    /\ result' = "nil"
    /\ outcome' = "Completed"
    /\ pc' = "Done"
    /\ UNCHANGED <<callVars, configVars, brokerVars, lateFill, localVars, calls, notifications, failure>>

EngineNext ==
    \/ EngineCheckMarket
    \/ EngineRunStrategy
    \/ EngineReturn

EngineSpec == EngineInit /\ [][EngineNext]_vars

\* the strategies of the list up to and including the first whose Run fails
RECURSIVE UpToFirstError(_)
UpToFirstError(strategies) ==
    IF strategies = <<>> THEN <<>>
    ELSE IF Head(strategies).err # "nil" THEN <<Head(strategies)>>
    ELSE <<Head(strategies)>> \o UpToFirstError(Tail(strategies))

EngineReturned == input.method = "Engine.Run" /\ pc = "Done"

\* C28: Engine.Run runs strategies only when the market is open.  Closed: no
\* strategy runs, no order is submitted, one MarketClosed notification, no
\* error.  Market check failed: no strategy runs, an error is returned.
\* Open: the strategies run in list order up to the first that fails, and
\* its error is what Engine.Run returns.
C28_StrategiesRunOnlyWhenMarketIsOpen ==
    input.method = "Engine.Run" =>
        /\ input.clock # "open" => output = <<>> /\ pendingOrders = <<>>
        /\ output = SubSeq(input.strategies, 1, Len(output))
        /\ EngineReturned /\ input.clock = "closed" =>
              /\ Len(notifications) = 1
              /\ notifications[1].method = "MarketClosed"
              /\ result = "nil"
        /\ EngineReturned /\ input.clock = "failed" => result = "err"
        /\ EngineReturned /\ input.clock = "open" =>
              /\ output = UpToFirstError(input.strategies)
              /\ IF output # <<>> /\ output[Len(output)].err # "nil"
                 THEN result = "err" /\ failure = output[Len(output)].err
                 ELSE result = "nil" /\ failure = "nil"

\* the market is closed and the engine holds a strategy that would have
\* submitted an order
C28_Witness ==
    /\ EngineReturned
    /\ input.clock = "closed"
    /\ Len(input.strategies) = 2
    /\ input.strategies[1].submits
    /\ output = <<>>
    /\ pendingOrders = <<>>
    /\ Len(notifications) = 1
    /\ notifications[1].method = "MarketClosed"
    /\ result = "nil"

(***************************************************************************)
(* alpaca.Client.GetOptionsPositions on every short list of account        *)
(* positions: calls and puts on QQQ, an option on SPY, an option on QQQM,  *)
(* a stock, and a symbol with no calendar date.                            *)
(***************************************************************************)
MaxHeld == 3

SymPut == ticker \o Jan2027 \o <<"P">> \o Strike400
SymQqqm == ticker \o <<"M">> \o Jan2027 \o <<"C">> \o Strike400

HeldSymbols == {SymA, SymPut, SymSpy, SymQqqm, SymStock, SymBad}
HeldPositions == UNION {[1..n -> HeldSymbols] : n \in 0..MaxHeld}
HeldTickers == {<<>>, ticker, <<"S", "P", "Y">>, <<"Q", "Q">>, <<"q", "q", "q">>}

HoldingsInit ==
    /\ RunAtRest
    /\ output = <<>>
    /\ \E underlyingTicker \in HeldTickers, allPositions \in HeldPositions, fetched \in BOOLEAN :
          input = [method |-> "GetOptionsPositions", ticker |-> underlyingTicker,
                   positions |-> allPositions, fetched |-> fetched]

CallGetOptionsPositions ==
    /\ input.method = "GetOptionsPositions"
    /\ Len(output) < MaxCalls
    /\ output' = Append(output, GetOptionsPositions(input.fetched, input.positions, input.ticker))
    /\ UNCHANGED input
    /\ StaysAtRest

HoldingsNext == CallGetOptionsPositions

HoldingsSpec == HoldingsInit /\ [][HoldingsNext]_vars

HoldingsCalled == input.method = "GetOptionsPositions" /\ output # <<>>

HeldParsed == [s \in HeldSymbols |-> ParseOptionTicker(s)]

\* the position is an option on the ticker asked for
IsOptionOnTicker(position) ==
    HeldParsed[position].ok /\ HeldParsed[position].Underlying = input.ticker

\* C29: GetOptionsPositions(ticker) returns exactly the account positions, in
\* their original order, whose symbol parses as an option symbol with an
\* underlying equal to ticker, calls and puts alike; a symbol that does not
\* parse is skipped without error; the call fails only when ticker is empty
\* or the account positions cannot be fetched.
C29_OptionPositionsOfTheTicker ==
    HoldingsCalled =>
        \A i \in DOMAIN output :
            /\ output[i].err # "nil" <=> (input.ticker = <<>> \/ ~input.fetched)
            /\ output[i].err # "nil" => output[i].positions = <<>>
            /\ output[i].err = "nil" =>
                  output[i].positions = SelectSeq(input.positions, IsOptionOnTicker)

\* a stock, a put and a call on QQQ held: the stock is skipped, the put and
\* the call are returned in the account's order
C29_Witness ==
    /\ HoldingsCalled
    /\ input.ticker = ticker
    /\ input.fetched
    /\ input.positions = <<SymStock, SymPut, SymA>>
    /\ output[1].err = "nil"
    /\ output[1].positions = <<SymPut, SymA>>

=============================================================================
